---- MODULE Spec2Model ----
(***************************************************************************)
(* Model of the FM API codec of JackrabbitLabs/fmapi (src/main.c, main.h): *)
(* fmapi_serialize, fmapi_deserialize, fmapi_fmob_req and fmapi_fmob_rsp.  *)
(*                                                                         *)
(* A caller owns one byte buffer and one destination object.  It calls     *)
(* fmapi_serialize on an object and then fmapi_deserialize on the buffer,  *)
(* or it looks an opcode up.  Buffers are functions from C offsets         *)
(* (0-based) to bytes; objects are records carrying the fields of the C    *)
(* structs; arrays are sequences whose entries beyond the sequence's       *)
(* length are zero (cleared memory).                                       *)
(***************************************************************************)
EXTENDS Integers, Sequences, FiniteSets, TLC

(* ------------------------------------------------------------------ *)
(* Bounds of the model                                                  *)
(* ------------------------------------------------------------------ *)
\* Size of the caller's byte buffer for all but the largest objects.
BufLen == 300
\* Count of entries of the short lists (besides 0, 1 and the capacity).
MaxCount == 3
\* Objects are built from the seeds 0..MaxSeed.
MaxSeed == 2
\* What the bytes of a buffer hold before a call: cleared, or left over.
Fills == {0, 165}
\* Bytes of the msg array of a tunnel command that are followed
TunnelLen == 96

(* ------------------------------------------------------------------ *)
(* Object identifiers: enum _FMOB (main.h)                              *)
(* ------------------------------------------------------------------ *)
FMOB_NULL == 0
FMOB_HDR == 1
FMOB_PSC_ID_RSP == 2
FMOB_PSC_PORT_REQ == 3
FMOB_PSC_PORT_INFO == 4
FMOB_PSC_PORT_RSP == 5
FMOB_PSC_PORT_CTRL_REQ == 6
FMOB_PSC_CFG_REQ == 7
FMOB_PSC_CFG_RSP == 8
FMOB_VSC_INFO_REQ == 9
FMOB_VSC_PPB_STAT_BLK == 10
FMOB_VSC_INFO_BLK == 11
FMOB_VSC_INFO_RSP == 12
FMOB_VSC_BIND_REQ == 13
FMOB_VSC_UNBIND_REQ == 14
FMOB_VSC_AER_REQ == 15
FMOB_MPC_TMC_REQ == 16
FMOB_MPC_TMC_RSP == 17
FMOB_MPC_CFG_REQ == 18
FMOB_MPC_CFG_RSP == 19
FMOB_MPC_MEM_REQ == 20
FMOB_MPC_MEM_RSP == 21
FMOB_MCC_INFO_RSP == 22
FMOB_MCC_ALLOC_BLK == 23
FMOB_MCC_ALLOC_GET_REQ == 24
FMOB_MCC_ALLOC_GET_RSP == 25
FMOB_MCC_ALLOC_SET_REQ == 26
FMOB_MCC_ALLOC_SET_RSP == 27
FMOB_MCC_QOS_CTRL == 28
FMOB_MCC_QOS_STAT_RSP == 29
FMOB_MCC_QOS_BW_GET_REQ == 30
FMOB_MCC_QOS_BW_ALLOC == 31
FMOB_MCC_QOS_BW_LIMIT_GET_REQ == 32
FMOB_MCC_QOS_BW_LIMIT == 33
FMOB_ISC_ID_RSP == 34
FMOB_ISC_MSG_LIMIT == 35
FMOB_ISC_BOS == 36
FMOB_MAX == 37

(* Message category: enum _FMMT *)
FMMT_REQ == 0
FMMT_RESP == 1

(* Opcodes: enum _FMOP (0x51xx PSC, 0x52xx VSC, 0x53xx MPC, 0x54xx MCC) *)
FMOP_PSC_ID == 20736
FMOP_PSC_PORT == 20737
FMOP_PSC_PORT_CTRL == 20738
FMOP_PSC_CFG == 20739
FMOP_VSC_INFO == 20992
FMOP_VSC_BIND == 20993
FMOP_VSC_UNBIND == 20994
FMOP_VSC_AER == 20995
FMOP_MPC_TMC == 21248
FMOP_MPC_CFG == 21249
FMOP_MPC_MEM == 21250
FMOP_MCC_INFO == 21504
FMOP_MCC_ALLOC_GET == 21505
FMOP_MCC_ALLOC_SET == 21506
FMOP_MCC_QOS_CTRL_GET == 21507
FMOP_MCC_QOS_CTRL_SET == 21508
FMOP_MCC_QOS_STAT == 21509
FMOP_MCC_QOS_BW_ALLOC_GET == 21510
FMOP_MCC_QOS_BW_ALLOC_SET == 21511
FMOP_MCC_QOS_BW_LIMIT_GET == 21512
FMOP_MCC_QOS_BW_LIMIT_SET == 21513
FMOP_ISC_ID == 1
FMOP_ISC_BOS == 2
FMOP_ISC_MSG_LIMIT_GET == 3
FMOP_ISC_MSG_LIMIT_SET == 4

(* Capacities (main.h) *)
FM_MAX_PORTS == 256
FM_MAX_VCS == 256
FM_MAX_VPPBS == 256
FM_MAX_VCS_PER_RSP == 7
FM_LD_MEM_REQ_LEN == 4096
FM_MAX_NUM_LD == 16
FM_TLP_HEADER == 32

(* Serialized lengths (main.h) *)
FMLN_HDR == 12
FMLN_MSG == 8192
FMLN_PAYLOAD == FMLN_MSG - FMLN_HDR
FMLN_PSC_IDENTIFY_SWITCH == 93
FMLN_PSC_GET_PHY_PORT_REQ == 1
FMLN_PSC_GET_PHY_PORT_INFO == 16
FMLN_PSC_GET_PHY_PORT_RESP == 4
FMLN_PSC_PHY_PORT_CTRL == 2
FMLN_PSC_PPB_IO_CFG_REQ == 8
FMLN_PSC_PPB_IO_CFG_RESP == 4
FMLN_VSC_GET_INFO_REQ == 3
FMLN_VSC_PPB_STATUS == 4
FMLN_VSC_INFO == 4
FMLN_VSC_GET_INFO_RESP == 4
FMLN_VSC_BIND == 6
FMLN_VSC_UNBIND == 3
FMLN_VSC_GEN_AER == 40
FMLN_MPC_TUNNEL_CMD_REQ == 5
FMLN_MPC_TUNNEL_CMD_RESP == 5
FMLN_MPC_TUNNEL_PAYLOAD == FMLN_PAYLOAD - FMLN_MPC_TUNNEL_CMD_REQ
FMLN_MPC_LD_IO_CFG_REQ == 12
FMLN_MPC_LD_IO_CFG_RESP == 4
FMLN_MPC_LD_MEM_REQ == 16
FMLN_MPC_LD_MEM_RESP == 4
FMLN_MCC_GET_LD_INFO == 11
FMLN_MCC_LD_ALLOC_ENTRY == 16
FMLN_MCC_GET_LD_ALLOC_REQ == 2
FMLN_MCC_GET_LD_ALLOC_RSP == 4
FMLN_MCC_SET_LD_ALLOC_REQ == 4
FMLN_MCC_SET_LD_ALLOC_RSP == 4
FMLN_MCC_QOS_CTRL == 7
FMLN_MCC_QOS_STATUS == 1
FMLN_MCC_GET_QOS_BW_REQ == 2
FMLN_MCC_QOS_BW_ALLOC == 2
FMLN_MCC_GET_QOS_BW_LIMIT_REQ == 2
FMLN_MCC_QOS_BW_LIMIT == 2
FMLN_ISC_ID_RSP == 17
FMLN_ISC_MSG_LIMIT == 1
FMLN_ISC_BOS == 8

(* Bit positions: enum _FMLF and enum _FMQT *)
FMLF_LANE_REVERSAL_BIT == 0
FMLF_PERST_STATE_BIT == 1
FMLF_PRSNT_STATE_BIT == 2
FMLF_PWRCTL_STATE_BIT == 3
FMQT_EGRESS_PORT_CONGESTION_BIT == 0
FMQT_TEMP_THROUGHPUT_REDUCTION_BIT == 1

(* ------------------------------------------------------------------ *)
(* C integer arithmetic                                                 *)
(* ------------------------------------------------------------------ *)
\* The null pointer: it points at no object, so it has none of an object's fields.
NULL == [null |-> 0]

Min(a, b) == IF a < b THEN a ELSE b

RECURSIVE Pow2(_)
Pow2(n) == IF n = 0 THEN 1 ELSE 2 * Pow2(n - 1)

\* x << n and x >> n on non-negative ints
Shl(x, n) == x * Pow2(n)
Shr(x, n) == x \div Pow2(n)

\* a & b and a | b, bit by bit
RECURSIVE And(_, _)
And(a, b) == IF a = 0 \/ b = 0 THEN 0
             ELSE (a % 2) * (b % 2) + 2 * And(a \div 2, b \div 2)

RECURSIVE Or(_, _)
Or(a, b) == IF a = 0 THEN b
            ELSE IF b = 0 THEN a
            ELSE (IF (a % 2) + (b % 2) > 0 THEN 1 ELSE 0) + 2 * Or(a \div 2, b \div 2)

\* Conversion to __u8, to __u16 and to an n-bit bit-field
U8(x) == x % 256
U16(x) == x % 65536
UBits(x, n) == x % Pow2(n)

(* A __u32 is kept as two 16-bit limbs <<low, high>> and a __u64 as four,  *)
(* least significant first (TLC's integers are 32 bits wide).  ByteOf is   *)
(* (v >> 8k) & 0xFF and FromBytes is the little endian reassembly          *)
(* ((__u64)src[k+7] << 56) | ... | src[k].                                 *)
ByteOf(v, k) == And(Shr(v[(k \div 2) + 1], 8 * (k % 2)), 255)
Limb(lo, hi) == Or(Shl(hi, 8), lo)

(* ------------------------------------------------------------------ *)
(* Byte buffers                                                         *)
(* ------------------------------------------------------------------ *)
Byte == 0..255

\* dst[off], dst[off+1], ... = bytes (a run of consecutive byte stores)
Put(dst, off, bytes) ==
    [i \in DOMAIN dst |->
        IF i >= off /\ i < off + Len(bytes) THEN bytes[i - off + 1] ELSE dst[i]]

\* The n bytes src[off] .. src[off+n-1] (the source of a memcpy)
Get(src, off, n) == [i \in 1..n |-> src[off + i - 1]]

\* memcpy(arr, bytes, Len(bytes)) into an array held as a sequence: the
\* first Len(bytes) entries are replaced, later ones keep their value.
Overlay(arr, bytes) ==
    bytes \o (IF Len(arr) > Len(bytes) THEN SubSeq(arr, Len(bytes) + 1, Len(arr)) ELSE <<>>)

\* arr[i] of an array held as a sequence (0-based, cleared beyond its length)
Elem(arr, i, zero) == IF i + 1 <= Len(arr) THEN arr[i + 1] ELSE zero

\* The first n entries of an array (the bytes a memcpy of n bytes reads)
Prefix(arr, n) == [i \in 1..n |-> Elem(arr, i - 1, 0)]

\* Offsets off .. off+n-1
Span(off, n) == off..(off + n - 1)

(* ------------------------------------------------------------------ *)
(* Opcode -> object identifier                                          *)
(* ------------------------------------------------------------------ *)
fmapi_fmob_req(opcode) ==
    CASE opcode = FMOP_PSC_ID -> FMOB_NULL
      [] opcode = FMOP_PSC_PORT -> FMOB_PSC_PORT_REQ
      [] opcode = FMOP_PSC_PORT_CTRL -> FMOB_PSC_PORT_CTRL_REQ
      [] opcode = FMOP_PSC_CFG -> FMOB_PSC_CFG_REQ
      [] opcode = FMOP_VSC_INFO -> FMOB_VSC_INFO_REQ
      [] opcode = FMOP_VSC_BIND -> FMOB_VSC_BIND_REQ
      [] opcode = FMOP_VSC_UNBIND -> FMOB_VSC_UNBIND_REQ
      [] opcode = FMOP_VSC_AER -> FMOB_VSC_AER_REQ
      [] opcode = FMOP_MPC_TMC -> FMOB_MPC_TMC_REQ
      [] opcode = FMOP_MPC_CFG -> FMOB_MPC_CFG_REQ
      [] opcode = FMOP_MPC_MEM -> FMOB_MPC_MEM_REQ
      [] opcode = FMOP_MCC_INFO -> FMOB_NULL
      [] opcode = FMOP_MCC_ALLOC_GET -> FMOB_MCC_ALLOC_GET_REQ
      [] opcode = FMOP_MCC_ALLOC_SET -> FMOB_MCC_ALLOC_SET_REQ
      [] opcode = FMOP_MCC_QOS_CTRL_GET -> FMOB_NULL
      [] opcode = FMOP_MCC_QOS_CTRL_SET -> FMOB_MCC_QOS_CTRL
      [] opcode = FMOP_MCC_QOS_STAT -> FMOB_NULL
      [] opcode = FMOP_MCC_QOS_BW_ALLOC_GET -> FMOB_MCC_QOS_BW_GET_REQ
      [] opcode = FMOP_MCC_QOS_BW_ALLOC_SET -> FMOB_MCC_QOS_BW_ALLOC
      [] opcode = FMOP_MCC_QOS_BW_LIMIT_GET -> FMOB_MCC_QOS_BW_LIMIT_GET_REQ
      [] opcode = FMOP_MCC_QOS_BW_LIMIT_SET -> FMOB_MCC_QOS_BW_LIMIT
      [] opcode = FMOP_ISC_ID -> FMOB_NULL
      [] opcode = FMOP_ISC_BOS -> FMOB_NULL
      [] opcode = FMOP_ISC_MSG_LIMIT_GET -> FMOB_NULL
      [] opcode = FMOP_ISC_MSG_LIMIT_SET -> FMOB_ISC_MSG_LIMIT
      [] OTHER -> FMOB_NULL

\* Variant: a lookup whose default is the end marker of the enumeration.
fmapi_fmob_rsp_default_max(opcode) ==
    CASE opcode = FMOP_PSC_ID -> FMOB_PSC_ID_RSP
      [] opcode = FMOP_PSC_PORT -> FMOB_PSC_PORT_RSP
      [] opcode = FMOP_PSC_PORT_CTRL -> FMOB_NULL
      [] opcode = FMOP_PSC_CFG -> FMOB_PSC_CFG_RSP
      [] opcode = FMOP_VSC_INFO -> FMOB_VSC_INFO_RSP
      [] opcode = FMOP_VSC_BIND -> FMOB_NULL
      [] opcode = FMOP_VSC_UNBIND -> FMOB_NULL
      [] opcode = FMOP_VSC_AER -> FMOB_NULL
      [] opcode = FMOP_MPC_TMC -> FMOB_MPC_TMC_RSP
      [] opcode = FMOP_MPC_CFG -> FMOB_MPC_CFG_RSP
      [] opcode = FMOP_MPC_MEM -> FMOB_MPC_MEM_RSP
      [] opcode = FMOP_MCC_INFO -> FMOB_MCC_INFO_RSP
      [] opcode = FMOP_MCC_ALLOC_GET -> FMOB_MCC_ALLOC_GET_RSP
      [] opcode = FMOP_MCC_ALLOC_SET -> FMOB_MCC_ALLOC_SET_RSP
      [] opcode = FMOP_MCC_QOS_CTRL_GET -> FMOB_MCC_QOS_CTRL
      [] opcode = FMOP_MCC_QOS_CTRL_SET -> FMOB_MCC_QOS_CTRL
      [] opcode = FMOP_MCC_QOS_STAT -> FMOB_MCC_QOS_STAT_RSP
      [] opcode = FMOP_MCC_QOS_BW_ALLOC_GET -> FMOB_MCC_QOS_BW_ALLOC
      [] opcode = FMOP_MCC_QOS_BW_ALLOC_SET -> FMOB_MCC_QOS_BW_ALLOC
      [] opcode = FMOP_MCC_QOS_BW_LIMIT_GET -> FMOB_MCC_QOS_BW_LIMIT
      [] opcode = FMOP_MCC_QOS_BW_LIMIT_SET -> FMOB_MCC_QOS_BW_LIMIT
      [] opcode = FMOP_ISC_ID -> FMOB_ISC_ID_RSP
      [] opcode = FMOP_ISC_BOS -> FMOB_ISC_BOS
      [] opcode = FMOP_ISC_MSG_LIMIT_GET -> FMOB_ISC_MSG_LIMIT
      [] opcode = FMOP_ISC_MSG_LIMIT_SET -> FMOB_ISC_MSG_LIMIT
      [] OTHER -> FMOB_MAX

fmapi_fmob_rsp(opcode) ==
    CASE opcode = FMOP_PSC_ID -> FMOB_PSC_ID_RSP
      [] opcode = FMOP_PSC_PORT -> FMOB_PSC_PORT_RSP
      [] opcode = FMOP_PSC_PORT_CTRL -> FMOB_NULL
      [] opcode = FMOP_PSC_CFG -> FMOB_PSC_CFG_RSP
      [] opcode = FMOP_VSC_INFO -> FMOB_VSC_INFO_RSP
      [] opcode = FMOP_VSC_BIND -> FMOB_NULL
      [] opcode = FMOP_VSC_UNBIND -> FMOB_NULL
      [] opcode = FMOP_VSC_AER -> FMOB_NULL
      [] opcode = FMOP_MPC_TMC -> FMOB_MPC_TMC_RSP
      [] opcode = FMOP_MPC_CFG -> FMOB_MPC_CFG_RSP
      [] opcode = FMOP_MPC_MEM -> FMOB_MPC_MEM_RSP
      [] opcode = FMOP_MCC_INFO -> FMOB_MCC_INFO_RSP
      [] opcode = FMOP_MCC_ALLOC_GET -> FMOB_MCC_ALLOC_GET_RSP
      [] opcode = FMOP_MCC_ALLOC_SET -> FMOB_MCC_ALLOC_SET_RSP
      [] opcode = FMOP_MCC_QOS_CTRL_GET -> FMOB_MCC_QOS_CTRL
      [] opcode = FMOP_MCC_QOS_CTRL_SET -> FMOB_MCC_QOS_CTRL
      [] opcode = FMOP_MCC_QOS_STAT -> FMOB_MCC_QOS_STAT_RSP
      [] opcode = FMOP_MCC_QOS_BW_ALLOC_GET -> FMOB_MCC_QOS_BW_ALLOC
      [] opcode = FMOP_MCC_QOS_BW_ALLOC_SET -> FMOB_MCC_QOS_BW_ALLOC
      [] opcode = FMOP_MCC_QOS_BW_LIMIT_GET -> FMOB_MCC_QOS_BW_LIMIT
      [] opcode = FMOP_MCC_QOS_BW_LIMIT_SET -> FMOB_MCC_QOS_BW_LIMIT
      [] opcode = FMOP_ISC_ID -> FMOB_ISC_ID_RSP
      [] opcode = FMOP_ISC_BOS -> FMOB_ISC_BOS
      [] opcode = FMOP_ISC_MSG_LIMIT_GET -> FMOB_ISC_MSG_LIMIT
      [] opcode = FMOP_ISC_MSG_LIMIT_SET -> FMOB_ISC_MSG_LIMIT
      [] OTHER -> FMOB_NULL

(* ------------------------------------------------------------------ *)
(* Cleared objects (memset(obj, 0, sizeof(obj)))                        *)
(* ------------------------------------------------------------------ *)
Zero32 == <<0, 0>>
Zero64 == <<0, 0, 0, 0>>
ZeroBytes(n) == [i \in 1..n |-> 0]

ZeroObj(type) ==
    CASE type = FMOB_HDR ->
            [category |-> 0, tag |-> 0, opcode |-> 0, background |-> 0, len |-> 0,
             return_code |-> 0, ext_status |-> 0]
      [] type = FMOB_PSC_ID_RSP ->
            [ingress_port |-> 0, num_ports |-> 0, num_vcss |-> 0,
             active_ports |-> ZeroBytes(32), active_vcss |-> ZeroBytes(32),
             num_vppbs |-> 0, active_vppbs |-> 0, num_decoders |-> 0]
      [] type = FMOB_PSC_PORT_REQ -> [num |-> 0, ports |-> <<>>]
      [] type = FMOB_PSC_PORT_INFO ->
            [ppid |-> 0, state |-> 0, dv |-> 0, dt |-> 0, cv |-> 0, mlw |-> 0, nlw |-> 0,
             speeds |-> 0, mls |-> 0, cls |-> 0, ltssm |-> 0, lane |-> 0, lane_rev |-> 0,
             perst |-> 0, prsnt |-> 0, pwrctrl |-> 0, num_ld |-> 0]
      [] type = FMOB_PSC_PORT_RSP -> [num |-> 0, list |-> <<>>]
      [] type = FMOB_PSC_PORT_CTRL_REQ -> [ppid |-> 0, opcode |-> 0]
      [] type = FMOB_PSC_CFG_REQ ->
            [ppid |-> 0, reg |-> 0, ext |-> 0, fdbe |-> 0, type |-> 0, data |-> ZeroBytes(4)]
      [] type = FMOB_PSC_CFG_RSP -> [data |-> ZeroBytes(4)]
      [] type = FMOB_VSC_INFO_REQ ->
            [vppbid_start |-> 0, vppbid_limit |-> 0, num |-> 0, vcss |-> <<>>]
      [] type = FMOB_VSC_PPB_STAT_BLK -> [status |-> 0, ppid |-> 0, ldid |-> 0]
      [] type = FMOB_VSC_INFO_BLK ->
            [vcsid |-> 0, state |-> 0, uspid |-> 0, total |-> 0, num |-> 0, list |-> <<>>]
      [] type = FMOB_VSC_INFO_RSP -> [num |-> 0, list |-> <<>>]
      [] type = FMOB_VSC_BIND_REQ -> [vcsid |-> 0, vppbid |-> 0, ppid |-> 0, ldid |-> 0]
      [] type = FMOB_VSC_UNBIND_REQ -> [vcsid |-> 0, vppbid |-> 0, option |-> 0]
      [] type = FMOB_VSC_AER_REQ ->
            [vcsid |-> 0, vppbid |-> 0, error_type |-> Zero32, header |-> ZeroBytes(32)]
      [] type = FMOB_MPC_TMC_REQ -> [ppid |-> 0, len |-> 0, type |-> 0, msg |-> <<>>]
      [] type = FMOB_MPC_TMC_RSP -> [type |-> 0, len |-> 0, msg |-> <<>>]
      [] type = FMOB_MPC_CFG_REQ ->
            [ppid |-> 0, reg |-> 0, ext |-> 0, fdbe |-> 0, type |-> 0, ldid |-> 0,
             data |-> ZeroBytes(4)]
      [] type = FMOB_MPC_CFG_RSP -> [data |-> ZeroBytes(4)]
      [] type = FMOB_MPC_MEM_REQ ->
            [ppid |-> 0, fdbe |-> 0, ldbe |-> 0, type |-> 0, ldid |-> 0, len |-> 0,
             offset |-> Zero64, data |-> <<>>]
      [] type = FMOB_MPC_MEM_RSP -> [len |-> 0, data |-> <<>>]
      [] type = FMOB_MCC_INFO_RSP -> [size |-> Zero64, num |-> 0, epc |-> 0, ttr |-> 0]
      [] type = FMOB_MCC_ALLOC_BLK -> [rng1 |-> Zero64, rng2 |-> Zero64]
      [] type = FMOB_MCC_ALLOC_GET_REQ -> [start |-> 0, limit |-> 0]
      [] type = FMOB_MCC_ALLOC_GET_RSP ->
            [total |-> 0, granularity |-> 0, start |-> 0, num |-> 0, list |-> <<>>]
      [] type = FMOB_MCC_ALLOC_SET_REQ -> [num |-> 0, start |-> 0, list |-> <<>>]
      [] type = FMOB_MCC_ALLOC_SET_RSP -> [num |-> 0, start |-> 0, list |-> <<>>]
      [] type = FMOB_MCC_QOS_CTRL ->
            [epc_en |-> 0, ttr_en |-> 0, egress_mod_pcnt |-> 0, egress_sev_pcnt |-> 0,
             sample_interval |-> 0, rcb |-> 0, comp_interval |-> 0]
      [] type = FMOB_MCC_QOS_STAT_RSP -> [bp_avg_pcnt |-> 0]
      [] type = FMOB_MCC_QOS_BW_GET_REQ -> [num |-> 0, start |-> 0]
      [] type = FMOB_MCC_QOS_BW_ALLOC -> [num |-> 0, start |-> 0, list |-> <<>>]
      [] type = FMOB_MCC_QOS_BW_LIMIT_GET_REQ -> [num |-> 0, start |-> 0]
      [] type = FMOB_MCC_QOS_BW_LIMIT -> [num |-> 0, start |-> 0, list |-> <<>>]
      [] type = FMOB_ISC_ID_RSP ->
            [vid |-> 0, did |-> 0, svid |-> 0, ssid |-> 0, sn |-> Zero64, size |-> 0]
      [] type = FMOB_ISC_MSG_LIMIT -> [limit |-> 0]
      [] type = FMOB_ISC_BOS -> [running |-> 0, pcnt |-> 0, opcode |-> 0, rc |-> 0, ext |-> 0]
      [] OTHER -> [none |-> 0]

(* ------------------------------------------------------------------ *)
(* fmapi_serialize: object -> little endian bytes                       *)
(*                                                                      *)
(* Each operator takes the buffer, the offset the C pointer dst has in  *)
(* it and the object, and yields the return value and the buffer after  *)
(* the call.                                                            *)
(* ------------------------------------------------------------------ *)
RECURSIVE fmapi_serialize(_, _, _, _)
RECURSIVE SerializeList(_, _, _, _, _, _, _)

\* The 8 bytes (v >> 0) & 0xFF .. (v >> 56) & 0xFF of a __u64
Bytes64(v) == [k \in 1..8 |-> ByteOf(v, k - 1)]

serialize_FMOB_HDR(dst, off, o) ==
    LET d1 == Put(dst, off + 0, << And(Shl(o.category, 4), 240), U8(o.tag) >>)
        d2 == Put(d1, off + 3,
                  << And(o.opcode, 255),
                     And(Shr(o.opcode, 8), 255),
                     And(o.len, 255),
                     And(Shr(o.len, 8), 255),
                     Or(And(Shr(o.len, 13), 248), And(o.background, 1)),
                     And(o.return_code, 255),
                     And(Shr(o.return_code, 8), 255),
                     And(o.ext_status, 255),
                     And(Shr(o.ext_status, 8), 255) >>)
    IN [rv |-> FMLN_HDR, dst |-> d2]

serialize_FMOB_ISC_BOS(dst, off, o) ==
    [rv |-> FMLN_ISC_BOS,
     dst |-> Put(dst, off + 0,
                 << U8(Or(Shl(o.pcnt, 1), And(o.running, 1))),
                    0,
                    And(o.opcode, 255), And(Shr(o.opcode, 8), 255),
                    And(o.rc, 255), And(Shr(o.rc, 8), 255),
                    And(o.ext, 255), And(Shr(o.ext, 8), 255) >>)]

serialize_FMOB_ISC_ID_RSP(dst, off, o) ==
    [rv |-> FMLN_ISC_ID_RSP,
     dst |-> Put(dst, off + 0,
                 << And(o.vid, 255), And(Shr(o.vid, 8), 255),
                    And(o.did, 255), And(Shr(o.did, 8), 255),
                    And(o.svid, 255), And(Shr(o.svid, 8), 255),
                    And(o.ssid, 255), And(Shr(o.ssid, 8), 255) >>
                 \o Bytes64(o.sn) \o << U8(o.size) >>)]

serialize_FMOB_ISC_MSG_LIMIT(dst, off, o) ==
    [rv |-> FMLN_ISC_MSG_LIMIT, dst |-> Put(dst, off + 0, << U8(o.limit) >>)]

serialize_FMOB_PSC_ID_RSP(dst, off, o) ==
    [rv |-> FMLN_PSC_IDENTIFY_SWITCH,
     dst |-> Put(dst, off + 0,
                 << U8(o.ingress_port), 0, U8(o.num_ports), U8(o.num_vcss) >>
                 \o Prefix(o.active_ports, 32)
                 \o Prefix(o.active_vcss, 32)
                 \o << And(o.num_vppbs, 255), And(Shr(o.num_vppbs, 8), 255),
                       And(o.active_vppbs, 255), And(Shr(o.active_vppbs, 8), 255),
                       U8(o.num_decoders) >>)]

serialize_FMOB_PSC_PORT_REQ(dst, off, o) ==
    [rv |-> FMLN_PSC_GET_PHY_PORT_REQ + o.num,
     dst |-> Put(dst, off + 0, << U8(o.num) >> \o Prefix(o.ports, o.num))]

serialize_FMOB_PSC_PORT_INFO(dst, off, o) ==
    LET d1 == Put(dst, off + 0, << U8(o.ppid), U8(o.state), U8(o.dv) >>)
        flags == Or(Or(Or(Or(0,
                     Shl(And(o.lane_rev, 1), FMLF_LANE_REVERSAL_BIT)),
                     Shl(And(o.perst, 1), FMLF_PERST_STATE_BIT)),
                     Shl(And(o.prsnt, 1), FMLF_PRSNT_STATE_BIT)),
                     Shl(And(o.pwrctrl, 1), FMLF_PWRCTL_STATE_BIT))
        d2 == Put(d1, off + 4,
                  << U8(o.dt), U8(o.cv), U8(o.mlw), U8(o.nlw), U8(o.speeds), U8(o.mls),
                     U8(o.cls), U8(o.ltssm), U8(o.lane), U8(flags), 0, U8(o.num_ld) >>)
    IN [rv |-> FMLN_PSC_GET_PHY_PORT_INFO, dst |-> d2]

\* Variant: an encoder that puts the first entry right behind the count
\* byte.
serialize_FMOB_PSC_PORT_RSP_no_gap(dst, off, o) ==
    SerializeList(Put(dst, off + 0, << U8(o.num) >>), off, 1,
                  o.list, 0, o.num, FMOB_PSC_PORT_INFO)

serialize_FMOB_PSC_PORT_RSP(dst, off, o) ==
    SerializeList(Put(dst, off + 0, << U8(o.num) >>), off, FMLN_PSC_GET_PHY_PORT_RESP,
                  o.list, 0, o.num, FMOB_PSC_PORT_INFO)

serialize_FMOB_PSC_PORT_CTRL_REQ(dst, off, o) ==
    [rv |-> FMLN_PSC_PHY_PORT_CTRL,
     dst |-> Put(dst, off + 0, << U8(o.ppid), U8(o.opcode) >>)]

serialize_FMOB_PSC_CFG_REQ(dst, off, o) ==
    [rv |-> FMLN_PSC_PPB_IO_CFG_REQ,
     dst |-> Put(dst, off + 0,
                 << U8(o.ppid), U8(o.reg),
                    Or(And(Shl(o.fdbe, 4), 240), And(o.ext, 15)),
                    And(Shl(o.type, 7), 128),
                    o.data[1], o.data[2], o.data[3], o.data[4] >>)]

serialize_FMOB_PSC_CFG_RSP(dst, off, o) ==
    [rv |-> FMLN_PSC_PPB_IO_CFG_RESP,
     dst |-> Put(dst, off + 0, << o.data[1], o.data[2], o.data[3], o.data[4] >>)]

serialize_FMOB_VSC_INFO_REQ(dst, off, o) ==
    [rv |-> FMLN_VSC_GET_INFO_REQ + o.num,
     dst |-> Put(dst, off + 0,
                 << U8(o.vppbid_start), U8(o.vppbid_limit), U8(o.num) >>
                 \o Prefix(o.vcss, o.num))]

serialize_FMOB_VSC_PPB_STAT_BLK(dst, off, o) ==
    [rv |-> FMLN_VSC_PPB_STATUS,
     dst |-> Put(dst, off + 0, << U8(o.status), U8(o.ppid), U8(o.ldid) >>)]

serialize_FMOB_VSC_INFO_BLK(dst, off, o) ==
    SerializeList(Put(dst, off + 0, << U8(o.vcsid), U8(o.state), U8(o.uspid), U8(o.total) >>),
                  off, FMLN_VSC_INFO, o.list, 0, o.num, FMOB_VSC_PPB_STAT_BLK)

serialize_FMOB_VSC_INFO_RSP(dst, off, o) ==
    SerializeList(Put(dst, off + 0, << U8(o.num) >>), off, FMLN_VSC_GET_INFO_RESP,
                  o.list, 0, o.num, FMOB_VSC_INFO_BLK)

serialize_FMOB_VSC_BIND_REQ(dst, off, o) ==
    LET d1 == Put(dst, off + 0, << U8(o.vcsid), U8(o.vppbid), U8(o.ppid) >>)
        d2 == Put(d1, off + 4, << And(o.ldid, 255), And(Shr(o.ldid, 8), 255) >>)
    IN [rv |-> FMLN_VSC_BIND, dst |-> d2]

serialize_FMOB_VSC_UNBIND_REQ(dst, off, o) ==
    [rv |-> FMLN_VSC_UNBIND,
     dst |-> Put(dst, off + 0, << U8(o.vcsid), U8(o.vppbid), U8(o.option) >>)]

serialize_FMOB_VSC_AER_REQ(dst, off, o) ==
    LET d1 == Put(dst, off + 0, << U8(o.vcsid), U8(o.vppbid) >>)
        d2 == Put(d1, off + 4,
                  << ByteOf(o.error_type, 0), ByteOf(o.error_type, 1),
                     ByteOf(o.error_type, 2), ByteOf(o.error_type, 3) >>
                  \o Prefix(o.header, 32))
    IN [rv |-> FMLN_VSC_GEN_AER, dst |-> d2]

\* Variant: an encoder that writes the message length itself into the
\* length field, without the byte the type field adds.
serialize_FMOB_MPC_TMC_REQ_plain_len(dst, off, o) ==
    LET d1 == Put(dst, off + 0, << U8(o.ppid) >>)
        d2 == Put(d1, off + 2,
                  << And(o.len, 255), And(Shr(o.len, 8), 255), U8(o.type) >>)
        d3 == Put(d2, off + FMLN_MPC_TUNNEL_CMD_REQ, Prefix(o.msg, o.len))
    IN [rv |-> FMLN_MPC_TUNNEL_CMD_REQ + o.len, dst |-> d3]

serialize_FMOB_MPC_TMC_REQ(dst, off, o) ==
    LET d1 == Put(dst, off + 0, << U8(o.ppid) >>)
        d2 == Put(d1, off + 2,
                  << And(o.len + 1, 255), And(Shr(o.len + 1, 8), 255), U8(o.type) >>)
        d3 == Put(d2, off + FMLN_MPC_TUNNEL_CMD_REQ, Prefix(o.msg, o.len))
    IN [rv |-> FMLN_MPC_TUNNEL_CMD_REQ + o.len, dst |-> d3]

serialize_FMOB_MPC_TMC_RSP(dst, off, o) ==
    LET d1 == Put(dst, off + 0, << And(o.len + 1, 255), And(Shr(o.len + 1, 8), 255) >>)
        d2 == Put(d1, off + 4, << U8(o.type) >>)
        d3 == Put(d2, off + FMLN_MPC_TUNNEL_CMD_REQ, Prefix(o.msg, o.len))
    IN [rv |-> FMLN_MPC_TUNNEL_CMD_RESP + o.len, dst |-> d3]

serialize_FMOB_MPC_CFG_REQ(dst, off, o) ==
    LET d1 == Put(dst, off + 0,
                  << U8(o.ppid), U8(o.reg),
                     Or(And(Shl(o.fdbe, 4), 240), And(o.ext, 15)),
                     And(Shl(o.type, 7), 128),
                     And(o.ldid, 255), And(Shr(o.ldid, 8), 255) >>)
        d2 == Put(d1, off + 8, << o.data[1], o.data[2], o.data[3], o.data[4] >>)
    IN [rv |-> FMLN_MPC_LD_IO_CFG_REQ, dst |-> d2]

serialize_FMOB_MPC_CFG_RSP(dst, off, o) ==
    [rv |-> FMLN_MPC_LD_IO_CFG_RESP,
     dst |-> Put(dst, off + 0, << o.data[1], o.data[2], o.data[3], o.data[4] >>)]

serialize_FMOB_MPC_MEM_REQ(dst, off, o) ==
    LET d1 == Put(dst, off + 0, << U8(o.ppid) >>)
        d2 == Put(d1, off + 2,
                  << And(Shl(o.fdbe, 4), 240),
                     Or(And(Shl(o.type, 7), 128), And(o.ldbe, 15)),
                     And(o.ldid, 255), And(Shr(o.ldid, 8), 255),
                     And(o.len, 255), And(Shr(o.len, 8), 255) >>
                  \o Bytes64(o.offset))
        d3 == Put(d2, off + FMLN_MPC_LD_MEM_REQ, Prefix(o.data, o.len))
    IN [rv |-> FMLN_MPC_LD_MEM_REQ + o.len, dst |-> d3]

serialize_FMOB_MPC_MEM_RSP(dst, off, o) ==
    LET d1 == Put(dst, off + 0, << And(o.len, 255), And(Shr(o.len, 8), 255) >>)
        d2 == Put(d1, off + FMLN_MPC_LD_MEM_RESP, Prefix(o.data, o.len))
    IN [rv |-> FMLN_MPC_LD_MEM_RESP + o.len, dst |-> d2]

serialize_FMOB_MCC_INFO_RSP(dst, off, o) ==
    [rv |-> FMLN_MCC_GET_LD_INFO,
     dst |-> Put(dst, off + 0,
                 Bytes64(o.size)
                 \o << And(o.num, 255), And(Shr(o.num, 8), 255),
                       U8(Or(Shl(And(o.epc, 1), FMQT_EGRESS_PORT_CONGESTION_BIT),
                             Shl(And(o.ttr, 1), FMQT_TEMP_THROUGHPUT_REDUCTION_BIT))) >>)]

serialize_FMOB_MCC_ALLOC_BLK(dst, off, o) ==
    [rv |-> FMLN_MCC_LD_ALLOC_ENTRY,
     dst |-> Put(dst, off + 0, Bytes64(o.rng1) \o Bytes64(o.rng2))]

serialize_FMOB_MCC_ALLOC_GET_REQ(dst, off, o) ==
    [rv |-> FMLN_MCC_GET_LD_ALLOC_REQ,
     dst |-> Put(dst, off + 0, << U8(o.start), U8(o.limit) >>)]

serialize_FMOB_MCC_ALLOC_GET_RSP(dst, off, o) ==
    SerializeList(Put(dst, off + 0,
                      << U8(o.total), U8(o.granularity), U8(o.start), U8(o.num) >>),
                  off, FMLN_MCC_GET_LD_ALLOC_RSP, o.list, 0, o.num, FMOB_MCC_ALLOC_BLK)

serialize_FMOB_MCC_ALLOC_SET_REQ(dst, off, o) ==
    SerializeList(Put(dst, off + 0, << U8(o.num), U8(o.start) >>),
                  off, FMLN_MCC_SET_LD_ALLOC_REQ, o.list, 0, o.num, FMOB_MCC_ALLOC_BLK)

serialize_FMOB_MCC_ALLOC_SET_RSP(dst, off, o) ==
    SerializeList(Put(dst, off + 0, << U8(o.num), U8(o.start) >>),
                  off, FMLN_MCC_SET_LD_ALLOC_RSP, o.list, 0, o.num, FMOB_MCC_ALLOC_BLK)

serialize_FMOB_MCC_QOS_CTRL(dst, off, o) ==
    [rv |-> FMLN_MCC_QOS_CTRL,
     dst |-> Put(dst, off + 0,
                 << U8(Or(U8(Or(0, Shl(o.epc_en, FMQT_EGRESS_PORT_CONGESTION_BIT))),
                          Shl(o.ttr_en, FMQT_TEMP_THROUGHPUT_REDUCTION_BIT))),
                    U8(o.egress_mod_pcnt), U8(o.egress_sev_pcnt), U8(o.sample_interval),
                    And(o.rcb, 255), And(Shr(o.rcb, 8), 255),
                    U8(o.comp_interval) >>)]

serialize_FMOB_MCC_QOS_STAT_RSP(dst, off, o) ==
    [rv |-> FMLN_MCC_QOS_STATUS, dst |-> Put(dst, off + 0, << U8(o.bp_avg_pcnt) >>)]

serialize_FMOB_MCC_QOS_BW_GET_REQ(dst, off, o) ==
    [rv |-> FMLN_MCC_GET_QOS_BW_REQ, dst |-> Put(dst, off + 0, << U8(o.num), U8(o.start) >>)]

serialize_FMOB_MCC_QOS_BW_ALLOC(dst, off, o) ==
    [rv |-> FMLN_MCC_QOS_BW_ALLOC + o.num,
     dst |-> Put(dst, off + 0, << U8(o.num), U8(o.start) >> \o Prefix(o.list, o.num))]

serialize_FMOB_MCC_QOS_BW_LIMIT_GET_REQ(dst, off, o) ==
    [rv |-> FMLN_MCC_GET_QOS_BW_LIMIT_REQ,
     dst |-> Put(dst, off + 0, << U8(o.num), U8(o.start) >>)]

serialize_FMOB_MCC_QOS_BW_LIMIT(dst, off, o) ==
    [rv |-> FMLN_MCC_QOS_BW_LIMIT + o.num,
     dst |-> Put(dst, off + 0, << U8(o.num), U8(o.start) >> \o Prefix(o.list, o.num))]

\* for (i = 0; i < o->num; i++) rv += fmapi_serialize(&dst[rv], &o->list[i], type)
SerializeList(dst, off, rv, list, i, num, type) ==
    IF i >= num THEN [rv |-> rv, dst |-> dst]
    ELSE LET r == fmapi_serialize(dst, off + rv, Elem(list, i, ZeroObj(type)), type)
         IN SerializeList(r.dst, off, rv + r.rv, list, i + 1, num, type)

\* switch (type) of fmapi_serialize
serialize_switch(dst, off, src, type) ==
         CASE type = FMOB_HDR -> serialize_FMOB_HDR(dst, off, src)
           [] type = FMOB_ISC_BOS -> serialize_FMOB_ISC_BOS(dst, off, src)
           [] type = FMOB_ISC_ID_RSP -> serialize_FMOB_ISC_ID_RSP(dst, off, src)
           [] type = FMOB_ISC_MSG_LIMIT -> serialize_FMOB_ISC_MSG_LIMIT(dst, off, src)
           [] type = FMOB_PSC_ID_RSP -> serialize_FMOB_PSC_ID_RSP(dst, off, src)
           [] type = FMOB_PSC_PORT_REQ -> serialize_FMOB_PSC_PORT_REQ(dst, off, src)
           [] type = FMOB_PSC_PORT_INFO -> serialize_FMOB_PSC_PORT_INFO(dst, off, src)
           [] type = FMOB_PSC_PORT_RSP -> serialize_FMOB_PSC_PORT_RSP(dst, off, src)
           [] type = FMOB_PSC_PORT_CTRL_REQ -> serialize_FMOB_PSC_PORT_CTRL_REQ(dst, off, src)
           [] type = FMOB_PSC_CFG_REQ -> serialize_FMOB_PSC_CFG_REQ(dst, off, src)
           [] type = FMOB_PSC_CFG_RSP -> serialize_FMOB_PSC_CFG_RSP(dst, off, src)
           [] type = FMOB_VSC_INFO_REQ -> serialize_FMOB_VSC_INFO_REQ(dst, off, src)
           [] type = FMOB_VSC_PPB_STAT_BLK -> serialize_FMOB_VSC_PPB_STAT_BLK(dst, off, src)
           [] type = FMOB_VSC_INFO_BLK -> serialize_FMOB_VSC_INFO_BLK(dst, off, src)
           [] type = FMOB_VSC_INFO_RSP -> serialize_FMOB_VSC_INFO_RSP(dst, off, src)
           [] type = FMOB_VSC_BIND_REQ -> serialize_FMOB_VSC_BIND_REQ(dst, off, src)
           [] type = FMOB_VSC_UNBIND_REQ -> serialize_FMOB_VSC_UNBIND_REQ(dst, off, src)
           [] type = FMOB_VSC_AER_REQ -> serialize_FMOB_VSC_AER_REQ(dst, off, src)
           [] type = FMOB_MPC_TMC_REQ -> serialize_FMOB_MPC_TMC_REQ(dst, off, src)
           [] type = FMOB_MPC_TMC_RSP -> serialize_FMOB_MPC_TMC_RSP(dst, off, src)
           [] type = FMOB_MPC_CFG_REQ -> serialize_FMOB_MPC_CFG_REQ(dst, off, src)
           [] type = FMOB_MPC_CFG_RSP -> serialize_FMOB_MPC_CFG_RSP(dst, off, src)
           [] type = FMOB_MPC_MEM_REQ -> serialize_FMOB_MPC_MEM_REQ(dst, off, src)
           [] type = FMOB_MPC_MEM_RSP -> serialize_FMOB_MPC_MEM_RSP(dst, off, src)
           [] type = FMOB_MCC_INFO_RSP -> serialize_FMOB_MCC_INFO_RSP(dst, off, src)
           [] type = FMOB_MCC_ALLOC_BLK -> serialize_FMOB_MCC_ALLOC_BLK(dst, off, src)
           [] type = FMOB_MCC_ALLOC_GET_REQ -> serialize_FMOB_MCC_ALLOC_GET_REQ(dst, off, src)
           [] type = FMOB_MCC_ALLOC_GET_RSP -> serialize_FMOB_MCC_ALLOC_GET_RSP(dst, off, src)
           [] type = FMOB_MCC_ALLOC_SET_REQ -> serialize_FMOB_MCC_ALLOC_SET_REQ(dst, off, src)
           [] type = FMOB_MCC_ALLOC_SET_RSP -> serialize_FMOB_MCC_ALLOC_SET_RSP(dst, off, src)
           [] type = FMOB_MCC_QOS_CTRL -> serialize_FMOB_MCC_QOS_CTRL(dst, off, src)
           [] type = FMOB_MCC_QOS_STAT_RSP -> serialize_FMOB_MCC_QOS_STAT_RSP(dst, off, src)
           [] type = FMOB_MCC_QOS_BW_GET_REQ -> serialize_FMOB_MCC_QOS_BW_GET_REQ(dst, off, src)
           [] type = FMOB_MCC_QOS_BW_ALLOC -> serialize_FMOB_MCC_QOS_BW_ALLOC(dst, off, src)
           [] type = FMOB_MCC_QOS_BW_LIMIT_GET_REQ ->
                  serialize_FMOB_MCC_QOS_BW_LIMIT_GET_REQ(dst, off, src)
           [] type = FMOB_MCC_QOS_BW_LIMIT -> serialize_FMOB_MCC_QOS_BW_LIMIT(dst, off, src)
           [] OTHER -> [rv |-> 0, dst |-> dst]

fmapi_serialize(dst, off, src, type) ==
    IF type = FMOB_NULL \/ type >= FMOB_MAX THEN [rv |-> 0, dst |-> dst]
    ELSE serialize_switch(dst, off, src, type)

(* ------------------------------------------------------------------ *)
(* fmapi_deserialize: little endian bytes -> object                     *)
(*                                                                      *)
(* Each operator takes the destination object as it is before the call, *)
(* the buffer and the offset the C pointer src has in it, and yields    *)
(* the return value, the destination object after the call and the set *)
(* of buffer offsets the call read.                                     *)
(* ------------------------------------------------------------------ *)
RECURSIVE fmapi_deserialize(_, _, _, _, _)
RECURSIVE DeserializeList(_, _, _, _, _, _, _, _, _)

\* ((__u64)src[k+7] << 56) | ... | ((__u64)src[k]) as four 16-bit limbs
LE64(src, k) == << Limb(src[k], src[k + 1]), Limb(src[k + 2], src[k + 3]),
                   Limb(src[k + 4], src[k + 5]), Limb(src[k + 6], src[k + 7]) >>

\* (src[k+3] << 24) | (src[k+2] << 16) | (src[k+1] << 8) | src[k] as two limbs
LE32(src, k) == << Limb(src[k], src[k + 1]), Limb(src[k + 2], src[k + 3]) >>

\* Variant: a decoder that takes the five high bits of len from the wrong
\* place (<< 8 where the code has << 13).
deserialize_FMOB_HDR_len_shift8(dst, src, off) ==
    [rv |-> FMLN_HDR,
     obj |-> [category |-> UBits(And(Shr(src[off + 0], 4), 15), 4),
              tag |-> src[off + 1],
              opcode |-> U16(Or(Shl(src[off + 4], 8), src[off + 3])),
              len |-> UBits(Or(Or(Shl(And(src[off + 7], 248), 8), Shl(src[off + 6], 8)),
                               src[off + 5]), 21),
              background |-> UBits(And(src[off + 7], 1), 1),
              return_code |-> U16(Or(Shl(src[off + 9], 8), src[off + 8])),
              ext_status |-> U16(Or(Shl(src[off + 11], 8), src[off + 10]))],
     rd |-> Span(off + 0, 2) \cup Span(off + 3, 9)]

deserialize_FMOB_HDR(dst, src, off) ==
    [rv |-> FMLN_HDR,
     obj |-> [category |-> UBits(And(Shr(src[off + 0], 4), 15), 4),
              tag |-> src[off + 1],
              opcode |-> U16(Or(Shl(src[off + 4], 8), src[off + 3])),
              len |-> UBits(Or(Or(Shl(And(src[off + 7], 248), 13), Shl(src[off + 6], 8)),
                               src[off + 5]), 21),
              background |-> UBits(And(src[off + 7], 1), 1),
              return_code |-> U16(Or(Shl(src[off + 9], 8), src[off + 8])),
              ext_status |-> U16(Or(Shl(src[off + 11], 8), src[off + 10]))],
     rd |-> Span(off + 0, 2) \cup Span(off + 3, 9)]

deserialize_FMOB_ISC_BOS(dst, src, off) ==
    [rv |-> FMLN_ISC_BOS,
     obj |-> [running |-> And(src[off + 0], 1),
              pcnt |-> And(Shr(src[off + 0], 1), 127),
              opcode |-> U16(Or(Shl(src[off + 3], 8), And(src[off + 2], 255))),
              rc |-> U16(Or(Shl(src[off + 5], 8), And(src[off + 4], 255))),
              ext |-> U16(Or(Shl(src[off + 7], 8), And(src[off + 6], 255)))],
     rd |-> {off + 0} \cup Span(off + 2, 6)]

deserialize_FMOB_ISC_ID_RSP(dst, src, off) ==
    [rv |-> FMLN_ISC_ID_RSP,
     obj |-> [vid |-> U16(Or(Shl(src[off + 1], 8), src[off + 0])),
              did |-> U16(Or(Shl(src[off + 3], 8), src[off + 2])),
              svid |-> U16(Or(Shl(src[off + 5], 8), src[off + 4])),
              ssid |-> U16(Or(Shl(src[off + 7], 8), src[off + 6])),
              sn |-> LE64(src, off + 8),
              size |-> src[off + 16]],
     rd |-> Span(off + 0, 17)]

deserialize_FMOB_ISC_MSG_LIMIT(dst, src, off) ==
    [rv |-> FMLN_ISC_MSG_LIMIT, obj |-> [limit |-> src[off + 0]], rd |-> {off + 0}]

deserialize_FMOB_PSC_ID_RSP(dst, src, off) ==
    [rv |-> FMLN_PSC_IDENTIFY_SWITCH,
     obj |-> [ingress_port |-> src[off + 0],
              num_ports |-> src[off + 2],
              num_vcss |-> src[off + 3],
              active_ports |-> Overlay(dst.active_ports, Get(src, off + 4, 32)),
              active_vcss |-> Overlay(dst.active_vcss, Get(src, off + 36, 32)),
              num_vppbs |-> U16(Or(Shl(src[off + 69], 8), src[off + 68])),
              active_vppbs |-> U16(Or(Shl(src[off + 71], 8), src[off + 70])),
              num_decoders |-> src[off + 72]],
     rd |-> {off + 0} \cup Span(off + 2, 71)]

deserialize_FMOB_PSC_PORT_REQ(dst, src, off) ==
    LET num == src[off + 0]
    IN [rv |-> FMLN_PSC_GET_PHY_PORT_REQ + num,
        obj |-> [num |-> num, ports |-> Overlay(dst.ports, Get(src, off + 1, num))],
        rd |-> Span(off + 0, 1 + num)]

deserialize_FMOB_PSC_PORT_INFO(dst, src, off) ==
    [rv |-> FMLN_PSC_GET_PHY_PORT_INFO,
     obj |-> [ppid |-> src[off + 0], state |-> src[off + 1], dv |-> src[off + 2],
              dt |-> src[off + 4], cv |-> src[off + 5], mlw |-> src[off + 6],
              nlw |-> src[off + 7], speeds |-> src[off + 8], mls |-> src[off + 9],
              cls |-> src[off + 10], ltssm |-> src[off + 11], lane |-> src[off + 12],
              lane_rev |-> And(Shr(src[off + 13], FMLF_LANE_REVERSAL_BIT), 1),
              perst |-> And(Shr(src[off + 13], FMLF_PERST_STATE_BIT), 1),
              prsnt |-> And(Shr(src[off + 13], FMLF_PRSNT_STATE_BIT), 1),
              pwrctrl |-> And(Shr(src[off + 13], FMLF_PWRCTL_STATE_BIT), 1),
              num_ld |-> src[off + 15]],
     rd |-> Span(off + 0, 3) \cup Span(off + 4, 10) \cup {off + 15}]

deserialize_FMOB_PSC_PORT_RSP(dst, src, off) ==
    LET num == src[off + 0]
        r == DeserializeList(dst.list, src, off, FMLN_PSC_GET_PHY_PORT_RESP, 0, num,
                             FMOB_PSC_PORT_INFO, NULL, {off + 0})
    IN [rv |-> r.rv, obj |-> [num |-> num, list |-> r.list], rd |-> r.rd]

deserialize_FMOB_PSC_PORT_CTRL_REQ(dst, src, off) ==
    [rv |-> FMLN_PSC_PHY_PORT_CTRL,
     obj |-> [ppid |-> src[off + 0], opcode |-> src[off + 1]],
     rd |-> Span(off + 0, 2)]

deserialize_FMOB_PSC_CFG_REQ(dst, src, off) ==
    [rv |-> FMLN_PSC_PPB_IO_CFG_REQ,
     obj |-> [ppid |-> src[off + 0],
              reg |-> src[off + 1],
              ext |-> And(src[off + 2], 15),
              fdbe |-> And(Shr(src[off + 2], 4), 15),
              type |-> And(Shr(src[off + 3], 7), 1),
              data |-> << src[off + 4], src[off + 5], src[off + 6], src[off + 7] >>],
     rd |-> Span(off + 0, 8)]

deserialize_FMOB_PSC_CFG_RSP(dst, src, off) ==
    [rv |-> FMLN_PSC_PPB_IO_CFG_RESP,
     obj |-> [data |-> << src[off + 0], src[off + 1], src[off + 2], src[off + 3] >>],
     rd |-> Span(off + 0, 4)]

deserialize_FMOB_VSC_INFO_REQ(dst, src, off) ==
    LET num == src[off + 2]
    IN [rv |-> FMLN_VSC_GET_INFO_REQ + num,
        obj |-> [vppbid_start |-> src[off + 0], vppbid_limit |-> src[off + 1],
                 num |-> num, vcss |-> Overlay(dst.vcss, Get(src, off + 3, num))],
        rd |-> Span(off + 0, 3 + num)]

deserialize_FMOB_VSC_PPB_STAT_BLK(dst, src, off) ==
    [rv |-> FMLN_VSC_PPB_STATUS,
     obj |-> [status |-> src[off + 0], ppid |-> src[off + 1], ldid |-> src[off + 2]],
     rd |-> Span(off + 0, 3)]

\* Variant: a decoder that caps the total at vppbid_limit without taking
\* vppbid_start off it first.
vsc_info_blk_num_from_zero(total, r) ==
    IF r.vppbid_limit < total THEN r.vppbid_limit ELSE total

\* o->num = o->total - r->vppbid_start;
\* if (r->vppbid_limit < o->num) o->num = r->vppbid_limit;
vsc_info_blk_num(total, r) ==
    LET n == U8(total - r.vppbid_start)
    IN IF r.vppbid_limit < n THEN r.vppbid_limit ELSE n

\* Variant: a decoder that stores the four leading fields of the block
\* before it finds that it has no request, and then reports the failure.
deserialize_FMOB_VSC_INFO_BLK_late_check(dst, src, off, param) ==
    IF param = NULL
    THEN [rv |-> 0,
          obj |-> [dst EXCEPT !.vcsid = src[off + 0], !.state = src[off + 1],
                              !.uspid = src[off + 2], !.total = src[off + 3]],
          rd |-> Span(off + 0, 4)]
    ELSE LET total == src[off + 3]
             num == vsc_info_blk_num(total, param)
             r == DeserializeList(dst.list, src, off, FMLN_VSC_INFO, 0, num,
                                  FMOB_VSC_PPB_STAT_BLK, NULL, Span(off + 0, 4))
         IN [rv |-> r.rv,
             obj |-> [vcsid |-> src[off + 0], state |-> src[off + 1],
                      uspid |-> src[off + 2], total |-> total, num |-> num,
                      list |-> r.list],
             rd |-> r.rd]

\* Variant: a decoder that, without a request, still decodes the four
\* leading bytes of the block and takes its list to be empty.
deserialize_FMOB_VSC_INFO_BLK_header_only(dst, src, off, param) ==
    LET total == src[off + 3]
        num == IF param = NULL THEN 0 ELSE vsc_info_blk_num(total, param)
        r == DeserializeList(dst.list, src, off, FMLN_VSC_INFO, 0, num,
                             FMOB_VSC_PPB_STAT_BLK, NULL, Span(off + 0, 4))
    IN [rv |-> r.rv,
        obj |-> [vcsid |-> src[off + 0], state |-> src[off + 1],
                 uspid |-> src[off + 2], total |-> total, num |-> num,
                 list |-> r.list],
        rd |-> r.rd]

deserialize_FMOB_VSC_INFO_BLK(dst, src, off, param) ==
    IF param = NULL THEN [rv |-> 0, obj |-> dst, rd |-> {}]
    ELSE LET total == src[off + 3]
             num == vsc_info_blk_num(total, param)
             r == DeserializeList(dst.list, src, off, FMLN_VSC_INFO, 0, num,
                                  FMOB_VSC_PPB_STAT_BLK, NULL, Span(off + 0, 4))
         IN [rv |-> r.rv,
             obj |-> [vcsid |-> src[off + 0], state |-> src[off + 1],
                      uspid |-> src[off + 2], total |-> total, num |-> num,
                      list |-> r.list],
             rd |-> r.rd]

deserialize_FMOB_VSC_INFO_RSP(dst, src, off, param) ==
    LET num == src[off + 0]
        r == DeserializeList(dst.list, src, off, FMLN_VSC_GET_INFO_RESP, 0, num,
                             FMOB_VSC_INFO_BLK, param, {off + 0})
    IN [rv |-> r.rv, obj |-> [num |-> num, list |-> r.list], rd |-> r.rd]

deserialize_FMOB_VSC_BIND_REQ(dst, src, off) ==
    [rv |-> FMLN_VSC_BIND,
     obj |-> [vcsid |-> src[off + 0], vppbid |-> src[off + 1], ppid |-> src[off + 2],
              ldid |-> U16(Or(Shl(src[off + 5], 8), src[off + 4]))],
     rd |-> Span(off + 0, 3) \cup Span(off + 4, 2)]

deserialize_FMOB_VSC_UNBIND_REQ(dst, src, off) ==
    [rv |-> FMLN_VSC_UNBIND,
     obj |-> [vcsid |-> src[off + 0], vppbid |-> src[off + 1],
              option |-> UBits(src[off + 2], 4)],
     rd |-> Span(off + 0, 3)]

deserialize_FMOB_VSC_AER_REQ(dst, src, off) ==
    [rv |-> FMLN_VSC_GEN_AER,
     obj |-> [vcsid |-> src[off + 0], vppbid |-> src[off + 1],
              error_type |-> LE32(src, off + 4),
              header |-> Overlay(dst.header, Get(src, off + 8, 32))],
     rd |-> Span(off + 0, 2) \cup Span(off + 4, 36)]

deserialize_FMOB_MPC_TMC_REQ(dst, src, off) ==
    LET len == U16(Or(Shl(src[off + 3], 8), src[off + 2]) - 1)
    IN [rv |-> FMLN_MPC_TUNNEL_CMD_REQ + len,
        obj |-> [ppid |-> src[off + 0], len |-> len, type |-> src[off + 4],
                 msg |-> Overlay(dst.msg, Get(src, off + FMLN_MPC_TUNNEL_CMD_REQ, len))],
        rd |-> {off + 0} \cup Span(off + 2, 3) \cup Span(off + FMLN_MPC_TUNNEL_CMD_REQ, len)]

\* Variant: a decoder that returns the length of the message without the
\* bytes before it.
deserialize_FMOB_MPC_TMC_RSP_msg_len(dst, src, off) ==
    LET len == U16(Or(Shl(src[off + 1], 8), src[off + 0]) - 1)
    IN [rv |-> len,
        obj |-> [type |-> src[off + 4], len |-> len,
                 msg |-> Overlay(dst.msg, Get(src, off + FMLN_MPC_TUNNEL_CMD_REQ, len))],
        rd |-> Span(off + 0, 2) \cup {off + 4} \cup Span(off + FMLN_MPC_TUNNEL_CMD_REQ, len)]

deserialize_FMOB_MPC_TMC_RSP(dst, src, off) ==
    LET len == U16(Or(Shl(src[off + 1], 8), src[off + 0]) - 1)
    IN [rv |-> FMLN_MPC_TUNNEL_CMD_RESP + len,
        obj |-> [type |-> src[off + 4], len |-> len,
                 msg |-> Overlay(dst.msg, Get(src, off + FMLN_MPC_TUNNEL_CMD_REQ, len))],
        rd |-> Span(off + 0, 2) \cup {off + 4} \cup Span(off + FMLN_MPC_TUNNEL_CMD_REQ, len)]

deserialize_FMOB_MPC_CFG_REQ(dst, src, off) ==
    [rv |-> FMLN_MPC_LD_IO_CFG_REQ,
     obj |-> [ppid |-> src[off + 0],
              reg |-> src[off + 1],
              ext |-> And(src[off + 2], 15),
              fdbe |-> And(Shr(src[off + 2], 4), 15),
              type |-> And(Shr(src[off + 3], 7), 1),
              ldid |-> U16(Or(Shl(src[off + 5], 8), src[off + 4])),
              data |-> << src[off + 8], src[off + 9], src[off + 10], src[off + 11] >>],
     rd |-> Span(off + 0, 6) \cup Span(off + 8, 4)]

deserialize_FMOB_MPC_CFG_RSP(dst, src, off) ==
    [rv |-> FMLN_MPC_LD_IO_CFG_RESP,
     obj |-> [data |-> << src[off + 0], src[off + 1], src[off + 2], src[off + 3] >>],
     rd |-> Span(off + 0, 4)]

deserialize_FMOB_MPC_MEM_REQ(dst, src, off) ==
    LET len == U16(Or(Shl(src[off + 7], 8), src[off + 6]))
    IN [rv |-> FMLN_MPC_LD_MEM_REQ + len,
        obj |-> [ppid |-> src[off + 0],
                 fdbe |-> And(Shr(src[off + 2], 4), 15),
                 ldbe |-> And(src[off + 3], 15),
                 type |-> And(Shr(src[off + 3], 7), 1),
                 ldid |-> U16(Or(Shl(src[off + 5], 8), src[off + 4])),
                 len |-> len,
                 offset |-> LE64(src, off + 8),
                 data |-> Overlay(dst.data, Get(src, off + FMLN_MPC_LD_MEM_REQ, len))],
        rd |-> {off + 0} \cup Span(off + 2, 14 + len)]

deserialize_FMOB_MPC_MEM_RSP(dst, src, off) ==
    LET len == U16(Or(Shl(src[off + 1], 8), src[off + 0]))
    IN [rv |-> FMLN_MPC_LD_MEM_RESP + len,
        obj |-> [len |-> len,
                 data |-> Overlay(dst.data, Get(src, off + FMLN_MPC_LD_MEM_RESP, len))],
        rd |-> Span(off + 0, 2) \cup Span(off + FMLN_MPC_LD_MEM_RESP, len)]

deserialize_FMOB_MCC_INFO_RSP(dst, src, off) ==
    [rv |-> FMLN_MCC_GET_LD_INFO,
     obj |-> [size |-> LE64(src, off + 0),
              num |-> U16(Or(Shl(src[off + 9], 8), src[off + 8])),
              epc |-> And(Shr(src[off + 10], FMQT_EGRESS_PORT_CONGESTION_BIT), 1),
              ttr |-> And(Shr(src[off + 10], FMQT_TEMP_THROUGHPUT_REDUCTION_BIT), 1)],
     rd |-> Span(off + 0, 11)]

deserialize_FMOB_MCC_ALLOC_BLK(dst, src, off) ==
    [rv |-> FMLN_MCC_LD_ALLOC_ENTRY,
     obj |-> [rng1 |-> LE64(src, off + 0), rng2 |-> LE64(src, off + 8)],
     rd |-> Span(off + 0, 16)]

deserialize_FMOB_MCC_ALLOC_GET_REQ(dst, src, off) ==
    [rv |-> FMLN_MCC_GET_LD_ALLOC_REQ,
     obj |-> [start |-> src[off + 0], limit |-> src[off + 1]],
     rd |-> Span(off + 0, 2)]

deserialize_FMOB_MCC_ALLOC_GET_RSP(dst, src, off) ==
    LET num == src[off + 3]
        r == DeserializeList(dst.list, src, off, FMLN_MCC_GET_LD_ALLOC_RSP, 0, num,
                             FMOB_MCC_ALLOC_BLK, NULL, Span(off + 0, 4))
    IN [rv |-> r.rv,
        obj |-> [total |-> src[off + 0], granularity |-> src[off + 1],
                 start |-> src[off + 2], num |-> num, list |-> r.list],
        rd |-> r.rd]

deserialize_FMOB_MCC_ALLOC_SET_REQ(dst, src, off) ==
    LET num == src[off + 0]
        r == DeserializeList(dst.list, src, off, FMLN_MCC_SET_LD_ALLOC_REQ, 0, num,
                             FMOB_MCC_ALLOC_BLK, NULL, Span(off + 0, 2))
    IN [rv |-> r.rv,
        obj |-> [num |-> num, start |-> src[off + 1], list |-> r.list],
        rd |-> r.rd]

deserialize_FMOB_MCC_ALLOC_SET_RSP(dst, src, off) ==
    LET num == src[off + 0]
        r == DeserializeList(dst.list, src, off, FMLN_MCC_SET_LD_ALLOC_RSP, 0, num,
                             FMOB_MCC_ALLOC_BLK, NULL, Span(off + 0, 2))
    IN [rv |-> r.rv,
        obj |-> [num |-> num, start |-> src[off + 1], list |-> r.list],
        rd |-> r.rd]

deserialize_FMOB_MCC_QOS_CTRL(dst, src, off) ==
    [rv |-> FMLN_MCC_QOS_CTRL,
     obj |-> [epc_en |-> And(Shr(src[off + 0], FMQT_EGRESS_PORT_CONGESTION_BIT), 1),
              ttr_en |-> And(Shr(src[off + 0], FMQT_TEMP_THROUGHPUT_REDUCTION_BIT), 1),
              egress_mod_pcnt |-> src[off + 1],
              egress_sev_pcnt |-> src[off + 2],
              sample_interval |-> src[off + 3],
              rcb |-> U16(Or(Shl(src[off + 5], 8), src[off + 4])),
              comp_interval |-> src[off + 6]],
     rd |-> Span(off + 0, 7)]

deserialize_FMOB_MCC_QOS_STAT_RSP(dst, src, off) ==
    [rv |-> FMLN_MCC_QOS_STATUS, obj |-> [bp_avg_pcnt |-> src[off + 0]], rd |-> {off + 0}]

deserialize_FMOB_MCC_QOS_BW_GET_REQ(dst, src, off) ==
    [rv |-> FMLN_MCC_GET_QOS_BW_REQ,
     obj |-> [num |-> src[off + 0], start |-> src[off + 1]],
     rd |-> Span(off + 0, 2)]

deserialize_FMOB_MCC_QOS_BW_ALLOC(dst, src, off) ==
    LET num == src[off + 0]
    IN [rv |-> FMLN_MCC_QOS_BW_ALLOC + num,
        obj |-> [num |-> num, start |-> src[off + 1],
                 list |-> Overlay(dst.list, Get(src, off + FMLN_MCC_QOS_BW_ALLOC, num))],
        rd |-> Span(off + 0, 2 + num)]

deserialize_FMOB_MCC_QOS_BW_LIMIT_GET_REQ(dst, src, off) ==
    [rv |-> FMLN_MCC_GET_QOS_BW_LIMIT_REQ,
     obj |-> [num |-> src[off + 0], start |-> src[off + 1]],
     rd |-> Span(off + 0, 2)]

deserialize_FMOB_MCC_QOS_BW_LIMIT(dst, src, off) ==
    LET num == src[off + 0]
    IN [rv |-> FMLN_MCC_QOS_BW_LIMIT + num,
        obj |-> [num |-> num, start |-> src[off + 1],
                 list |-> Overlay(dst.list, Get(src, off + FMLN_MCC_QOS_BW_LIMIT, num))],
        rd |-> Span(off + 0, 2 + num)]

\* for (i = 0; i < o->num; i++)
\*     rv += fmapi_deserialize(&o->list[i], &src[rv], type, param)
DeserializeList(list, src, off, rv, i, num, type, param, rd) ==
    IF i >= num THEN [rv |-> rv, list |-> list, rd |-> rd]
    ELSE LET r == fmapi_deserialize(Elem(list, i, ZeroObj(type)), src, off + rv, type, param)
             l == IF i + 1 <= Len(list) THEN [list EXCEPT ![i + 1] = r.obj]
                  ELSE Append(list, r.obj)
         IN DeserializeList(l, src, off, rv + r.rv, i + 1, num, type, param, rd \cup r.rd)

\* switch (type) of fmapi_deserialize
deserialize_switch(dst, src, off, type, param) ==
         CASE type = FMOB_NULL -> [rv |-> 0, obj |-> dst, rd |-> {}]
           [] type = FMOB_HDR -> deserialize_FMOB_HDR(dst, src, off)
           [] type = FMOB_ISC_BOS -> deserialize_FMOB_ISC_BOS(dst, src, off)
           [] type = FMOB_ISC_ID_RSP -> deserialize_FMOB_ISC_ID_RSP(dst, src, off)
           [] type = FMOB_ISC_MSG_LIMIT -> deserialize_FMOB_ISC_MSG_LIMIT(dst, src, off)
           [] type = FMOB_PSC_ID_RSP -> deserialize_FMOB_PSC_ID_RSP(dst, src, off)
           [] type = FMOB_PSC_PORT_REQ -> deserialize_FMOB_PSC_PORT_REQ(dst, src, off)
           [] type = FMOB_PSC_PORT_INFO -> deserialize_FMOB_PSC_PORT_INFO(dst, src, off)
           [] type = FMOB_PSC_PORT_RSP -> deserialize_FMOB_PSC_PORT_RSP(dst, src, off)
           [] type = FMOB_PSC_PORT_CTRL_REQ -> deserialize_FMOB_PSC_PORT_CTRL_REQ(dst, src, off)
           [] type = FMOB_PSC_CFG_REQ -> deserialize_FMOB_PSC_CFG_REQ(dst, src, off)
           [] type = FMOB_PSC_CFG_RSP -> deserialize_FMOB_PSC_CFG_RSP(dst, src, off)
           [] type = FMOB_VSC_INFO_REQ -> deserialize_FMOB_VSC_INFO_REQ(dst, src, off)
           [] type = FMOB_VSC_PPB_STAT_BLK -> deserialize_FMOB_VSC_PPB_STAT_BLK(dst, src, off)
           [] type = FMOB_VSC_INFO_BLK -> deserialize_FMOB_VSC_INFO_BLK(dst, src, off, param)
           [] type = FMOB_VSC_INFO_RSP -> deserialize_FMOB_VSC_INFO_RSP(dst, src, off, param)
           [] type = FMOB_VSC_BIND_REQ -> deserialize_FMOB_VSC_BIND_REQ(dst, src, off)
           [] type = FMOB_VSC_UNBIND_REQ -> deserialize_FMOB_VSC_UNBIND_REQ(dst, src, off)
           [] type = FMOB_VSC_AER_REQ -> deserialize_FMOB_VSC_AER_REQ(dst, src, off)
           [] type = FMOB_MPC_TMC_REQ -> deserialize_FMOB_MPC_TMC_REQ(dst, src, off)
           [] type = FMOB_MPC_TMC_RSP -> deserialize_FMOB_MPC_TMC_RSP(dst, src, off)
           [] type = FMOB_MPC_CFG_REQ -> deserialize_FMOB_MPC_CFG_REQ(dst, src, off)
           [] type = FMOB_MPC_CFG_RSP -> deserialize_FMOB_MPC_CFG_RSP(dst, src, off)
           [] type = FMOB_MPC_MEM_REQ -> deserialize_FMOB_MPC_MEM_REQ(dst, src, off)
           [] type = FMOB_MPC_MEM_RSP -> deserialize_FMOB_MPC_MEM_RSP(dst, src, off)
           [] type = FMOB_MCC_INFO_RSP -> deserialize_FMOB_MCC_INFO_RSP(dst, src, off)
           [] type = FMOB_MCC_ALLOC_BLK -> deserialize_FMOB_MCC_ALLOC_BLK(dst, src, off)
           [] type = FMOB_MCC_ALLOC_GET_REQ -> deserialize_FMOB_MCC_ALLOC_GET_REQ(dst, src, off)
           [] type = FMOB_MCC_ALLOC_GET_RSP -> deserialize_FMOB_MCC_ALLOC_GET_RSP(dst, src, off)
           [] type = FMOB_MCC_ALLOC_SET_REQ -> deserialize_FMOB_MCC_ALLOC_SET_REQ(dst, src, off)
           [] type = FMOB_MCC_ALLOC_SET_RSP -> deserialize_FMOB_MCC_ALLOC_SET_RSP(dst, src, off)
           [] type = FMOB_MCC_QOS_CTRL -> deserialize_FMOB_MCC_QOS_CTRL(dst, src, off)
           [] type = FMOB_MCC_QOS_STAT_RSP -> deserialize_FMOB_MCC_QOS_STAT_RSP(dst, src, off)
           [] type = FMOB_MCC_QOS_BW_GET_REQ -> deserialize_FMOB_MCC_QOS_BW_GET_REQ(dst, src, off)
           [] type = FMOB_MCC_QOS_BW_ALLOC -> deserialize_FMOB_MCC_QOS_BW_ALLOC(dst, src, off)
           [] type = FMOB_MCC_QOS_BW_LIMIT_GET_REQ ->
                  deserialize_FMOB_MCC_QOS_BW_LIMIT_GET_REQ(dst, src, off)
           [] type = FMOB_MCC_QOS_BW_LIMIT -> deserialize_FMOB_MCC_QOS_BW_LIMIT(dst, src, off)
           [] OTHER -> [rv |-> 0, obj |-> dst, rd |-> {}]

\* Variant: a decoder that rejects FMOB_NULL as it rejects the values
\* outside the enumeration.
fmapi_deserialize_null_rejected(dst, src, off, type, param) ==
    IF dst = NULL \/ type >= FMOB_MAX \/ type = FMOB_NULL
    THEN [rv |-> -1, obj |-> dst, rd |-> {}]
    ELSE deserialize_switch(dst, src, off, type, param)

\* Variant: a decoder that validates the destination only and leaves an
\* unknown type to the default of the switch.
fmapi_deserialize_type_unchecked(dst, src, off, type, param) ==
    IF dst = NULL THEN [rv |-> -1, obj |-> dst, rd |-> {}]
    ELSE deserialize_switch(dst, src, off, type, param)

fmapi_deserialize(dst, src, off, type, param) ==
    IF dst = NULL \/ type >= FMOB_MAX THEN [rv |-> -1, obj |-> dst, rd |-> {}]
    ELSE deserialize_switch(dst, src, off, type, param)

(* ------------------------------------------------------------------ *)
(* Objects handed to the library                                        *)
(*                                                                      *)
(* Obj(type, s, n) is an object of a kind whose every field fits its    *)
(* wire width and whose list holds n entries.  Seed 0 clears every      *)
(* field, seed 1 sets every bit of every field and every other seed     *)
(* gives each field a value of its own.                                 *)
(* ------------------------------------------------------------------ *)
Seeds == 0..MaxSeed

Val(s, k, w) == IF s = 0 THEN 0
                ELSE IF s = 1 THEN Pow2(w) - 1
                ELSE (s * 9973 + k * 6151 + 1) % Pow2(w)

ValBytes(s, k, n) == [i \in 1..n |-> Val(s, k + i, 8)]
Val32(s, k) == << Val(s, k, 16), Val(s, k + 1, 16) >>
Val64(s, k) == << Val(s, k, 16), Val(s, k + 1, 16), Val(s, k + 2, 16), Val(s, k + 3, 16) >>

\* The entry count a switch reports for a block of `total` vPPBs when asked
\* for at most vppbid_limit entries from vppbid_start on.
ResponseCount(total, r) ==
    IF total > r.vppbid_start THEN Min(r.vppbid_limit, total - r.vppbid_start) ELSE 0

vsc_ppb_stat_blk(s) == [status |-> Val(s, 1, 8), ppid |-> Val(s, 2, 8), ldid |-> Val(s, 3, 8)]

vsc_info_blk(s, total, n) ==
    [vcsid |-> Val(s, 1, 8), state |-> Val(s, 2, 8), uspid |-> Val(s, 3, 8),
     total |-> total, num |-> n,
     list |-> [i \in 1..n |-> vsc_ppb_stat_blk((s + i) % (MaxSeed + 1))]]

vsc_info_req(start, limit) ==
    [vppbid_start |-> start, vppbid_limit |-> limit, num |-> 1, vcss |-> << 0 >>]

\* A response of n blocks to the request r; odd blocks hold 10 + i vPPBs and
\* even blocks 2 + i.
vsc_info_rsp(s, n, r) ==
    [num |-> n,
     list |-> [i \in 1..n |->
                 LET total == (IF i % 2 = 1 THEN 10 ELSE 2) + i
                 IN vsc_info_blk((s + i) % (MaxSeed + 1), total, ResponseCount(total, r))]]

psc_port_info(s) ==
    [ppid |-> Val(s, 1, 8), state |-> Val(s, 2, 8), dv |-> Val(s, 3, 8), dt |-> Val(s, 4, 8),
     cv |-> Val(s, 5, 8), mlw |-> Val(s, 6, 8), nlw |-> Val(s, 7, 8),
     speeds |-> Val(s, 8, 8), mls |-> Val(s, 9, 8), cls |-> Val(s, 10, 8),
     ltssm |-> Val(s, 11, 8), lane |-> Val(s, 12, 8), lane_rev |-> Val(s, 13, 1),
     perst |-> Val(s, 14, 1), prsnt |-> Val(s, 15, 1), pwrctrl |-> Val(s, 16, 1),
     num_ld |-> Val(s, 17, 8)]

mcc_alloc_blk(s) == [rng1 |-> Val64(s, 1), rng2 |-> Val64(s, 5)]

Obj(type, s, n) ==
    CASE type = FMOB_HDR ->
            [category |-> Val(s, 1, 4), tag |-> Val(s, 2, 8), opcode |-> Val(s, 3, 16),
             background |-> Val(s, 4, 1), len |-> Val(s, 5, 21),
             return_code |-> Val(s, 6, 16), ext_status |-> Val(s, 7, 16)]
      [] type = FMOB_PSC_ID_RSP ->
            [ingress_port |-> Val(s, 1, 8), num_ports |-> Val(s, 2, 8),
             num_vcss |-> Val(s, 3, 8),
             active_ports |-> ValBytes(s, 10, 32), active_vcss |-> ValBytes(s, 50, 32),
             num_vppbs |-> Val(s, 4, 16), active_vppbs |-> Val(s, 5, 16),
             num_decoders |-> Val(s, 6, 8)]
      [] type = FMOB_PSC_PORT_REQ -> [num |-> n, ports |-> ValBytes(s, 1, n)]
      [] type = FMOB_PSC_PORT_INFO -> psc_port_info(s)
      [] type = FMOB_PSC_PORT_RSP ->
            [num |-> n, list |-> [i \in 1..n |-> psc_port_info((s + i) % (MaxSeed + 1))]]
      [] type = FMOB_PSC_PORT_CTRL_REQ -> [ppid |-> Val(s, 1, 8), opcode |-> Val(s, 2, 8)]
      [] type = FMOB_PSC_CFG_REQ ->
            [ppid |-> Val(s, 1, 8), reg |-> Val(s, 2, 8), ext |-> Val(s, 3, 4),
             fdbe |-> Val(s, 4, 4), type |-> Val(s, 5, 1), data |-> ValBytes(s, 6, 4)]
      [] type = FMOB_PSC_CFG_RSP -> [data |-> ValBytes(s, 1, 4)]
      [] type = FMOB_VSC_INFO_REQ ->
            [vppbid_start |-> Val(s, 1, 8), vppbid_limit |-> Val(s, 2, 8), num |-> n,
             vcss |-> ValBytes(s, 3, n)]
      [] type = FMOB_VSC_PPB_STAT_BLK -> vsc_ppb_stat_blk(s)
      [] type = FMOB_VSC_BIND_REQ ->
            [vcsid |-> Val(s, 1, 8), vppbid |-> Val(s, 2, 8), ppid |-> Val(s, 3, 8),
             ldid |-> Val(s, 4, 16)]
      [] type = FMOB_VSC_UNBIND_REQ ->
            [vcsid |-> Val(s, 1, 8), vppbid |-> Val(s, 2, 8), option |-> Val(s, 3, 4)]
      [] type = FMOB_VSC_AER_REQ ->
            [vcsid |-> Val(s, 1, 8), vppbid |-> Val(s, 2, 8), error_type |-> Val32(s, 3),
             header |-> ValBytes(s, 5, 32)]
      [] type = FMOB_MPC_TMC_REQ ->
            [ppid |-> Val(s, 1, 8), len |-> n, type |-> Val(s, 2, 8),
             msg |-> ValBytes(s, 3, n)]
      [] type = FMOB_MPC_TMC_RSP ->
            [type |-> Val(s, 1, 8), len |-> n, msg |-> ValBytes(s, 2, n)]
      [] type = FMOB_MPC_CFG_REQ ->
            [ppid |-> Val(s, 1, 8), reg |-> Val(s, 2, 8), ext |-> Val(s, 3, 4),
             fdbe |-> Val(s, 4, 4), type |-> Val(s, 5, 1), ldid |-> Val(s, 6, 16),
             data |-> ValBytes(s, 7, 4)]
      [] type = FMOB_MPC_CFG_RSP -> [data |-> ValBytes(s, 1, 4)]
      [] type = FMOB_MPC_MEM_REQ ->
            [ppid |-> Val(s, 1, 8), fdbe |-> Val(s, 2, 4), ldbe |-> Val(s, 3, 4),
             type |-> Val(s, 4, 1), ldid |-> Val(s, 5, 16), len |-> n,
             offset |-> Val64(s, 6), data |-> ValBytes(s, 10, n)]
      [] type = FMOB_MPC_MEM_RSP -> [len |-> n, data |-> ValBytes(s, 1, n)]
      [] type = FMOB_MCC_INFO_RSP ->
            [size |-> Val64(s, 1), num |-> Val(s, 5, 16), epc |-> Val(s, 6, 1),
             ttr |-> Val(s, 7, 1)]
      [] type = FMOB_MCC_ALLOC_BLK -> mcc_alloc_blk(s)
      [] type = FMOB_MCC_ALLOC_GET_REQ -> [start |-> Val(s, 1, 8), limit |-> Val(s, 2, 8)]
      [] type = FMOB_MCC_ALLOC_GET_RSP ->
            [total |-> Val(s, 1, 8), granularity |-> Val(s, 2, 8), start |-> Val(s, 3, 8),
             num |-> n, list |-> [i \in 1..n |-> mcc_alloc_blk((s + i) % (MaxSeed + 1))]]
      [] type \in {FMOB_MCC_ALLOC_SET_REQ, FMOB_MCC_ALLOC_SET_RSP} ->
            [num |-> n, start |-> Val(s, 1, 8),
             list |-> [i \in 1..n |-> mcc_alloc_blk((s + i) % (MaxSeed + 1))]]
      [] type = FMOB_MCC_QOS_CTRL ->
            [epc_en |-> Val(s, 1, 1), ttr_en |-> Val(s, 2, 1),
             egress_mod_pcnt |-> Val(s, 3, 8), egress_sev_pcnt |-> Val(s, 4, 8),
             sample_interval |-> Val(s, 5, 8), rcb |-> Val(s, 6, 16),
             comp_interval |-> Val(s, 7, 8)]
      [] type = FMOB_MCC_QOS_STAT_RSP -> [bp_avg_pcnt |-> Val(s, 1, 8)]
      [] type \in {FMOB_MCC_QOS_BW_GET_REQ, FMOB_MCC_QOS_BW_LIMIT_GET_REQ} ->
            [num |-> Val(s, 1, 8), start |-> Val(s, 2, 8)]
      [] type \in {FMOB_MCC_QOS_BW_ALLOC, FMOB_MCC_QOS_BW_LIMIT} ->
            [num |-> n, start |-> Val(s, 1, 8), list |-> ValBytes(s, 2, n)]
      [] type = FMOB_ISC_ID_RSP ->
            [vid |-> Val(s, 1, 16), did |-> Val(s, 2, 16), svid |-> Val(s, 3, 16),
             ssid |-> Val(s, 4, 16), sn |-> Val64(s, 5), size |-> Val(s, 9, 8)]
      [] type = FMOB_ISC_MSG_LIMIT -> [limit |-> Val(s, 1, 8)]
      [] type = FMOB_ISC_BOS ->
            [running |-> Val(s, 1, 1), pcnt |-> Val(s, 2, 7), opcode |-> Val(s, 3, 16),
             rc |-> Val(s, 4, 16), ext |-> Val(s, 5, 16)]
      [] OTHER -> [none |-> 0]

\* Kinds without a variable part, kinds that end in a list, and the list
\* lengths tried for each (0, 1, MaxCount, the capacity of the array where a
\* buffer of BufLen bytes holds it, and one more than the capacity of the
\* arrays of FM_MAX_NUM_LD entries: the entry behind the array is then what
\* the memory behind the object holds).
FixedKinds ==
    {FMOB_PSC_ID_RSP, FMOB_PSC_PORT_INFO, FMOB_PSC_PORT_CTRL_REQ, FMOB_PSC_CFG_REQ,
     FMOB_PSC_CFG_RSP, FMOB_VSC_PPB_STAT_BLK, FMOB_VSC_BIND_REQ, FMOB_VSC_UNBIND_REQ,
     FMOB_VSC_AER_REQ, FMOB_MPC_CFG_REQ, FMOB_MPC_CFG_RSP, FMOB_MCC_INFO_RSP,
     FMOB_MCC_ALLOC_BLK, FMOB_MCC_ALLOC_GET_REQ, FMOB_MCC_QOS_CTRL, FMOB_MCC_QOS_STAT_RSP,
     FMOB_MCC_QOS_BW_GET_REQ, FMOB_MCC_QOS_BW_LIMIT_GET_REQ, FMOB_ISC_ID_RSP,
     FMOB_ISC_MSG_LIMIT, FMOB_ISC_BOS}

ListKinds ==
    {FMOB_PSC_PORT_REQ, FMOB_PSC_PORT_RSP, FMOB_VSC_INFO_REQ, FMOB_MPC_TMC_REQ,
     FMOB_MPC_TMC_RSP, FMOB_MPC_MEM_REQ, FMOB_MPC_MEM_RSP, FMOB_MCC_ALLOC_GET_RSP,
     FMOB_MCC_ALLOC_SET_REQ, FMOB_MCC_ALLOC_SET_RSP, FMOB_MCC_QOS_BW_ALLOC,
     FMOB_MCC_QOS_BW_LIMIT}

Counts(type) ==
    {0, 1, MaxCount} \cup
    (CASE type \in {FMOB_PSC_PORT_REQ, FMOB_VSC_INFO_REQ} -> {FM_MAX_PORTS - 1}
       [] type \in {FMOB_MPC_TMC_REQ, FMOB_MPC_TMC_RSP} -> {68}
       [] type \in {FMOB_MCC_ALLOC_GET_RSP, FMOB_MCC_ALLOC_SET_REQ, FMOB_MCC_ALLOC_SET_RSP,
                    FMOB_MCC_QOS_BW_ALLOC, FMOB_MCC_QOS_BW_LIMIT} ->
               {FM_MAX_NUM_LD, FM_MAX_NUM_LD + 1}
       [] OTHER -> {})

\* The number of entries the list array of a kind has (its declaration in
\* the struct); 0 for a kind without a list.
Capacity(type) ==
    CASE type \in {FMOB_PSC_PORT_REQ, FMOB_PSC_PORT_RSP} -> FM_MAX_PORTS
      [] type = FMOB_VSC_INFO_REQ -> FM_MAX_VCS
      [] type = FMOB_VSC_INFO_BLK -> FM_MAX_VPPBS
      [] type = FMOB_VSC_INFO_RSP -> FM_MAX_VCS_PER_RSP
      [] type \in {FMOB_MPC_TMC_REQ, FMOB_MPC_TMC_RSP} -> FMLN_MPC_TUNNEL_PAYLOAD
      [] type \in {FMOB_MPC_MEM_REQ, FMOB_MPC_MEM_RSP} -> FM_LD_MEM_REQ_LEN
      [] type \in {FMOB_MCC_ALLOC_GET_RSP, FMOB_MCC_ALLOC_SET_REQ, FMOB_MCC_ALLOC_SET_RSP,
                   FMOB_MCC_QOS_BW_ALLOC, FMOB_MCC_QOS_BW_LIMIT} -> FM_MAX_NUM_LD
      [] OTHER -> 0

\* Headers: the boundary values of the fields that share a wire byte in
\* every combination, and the boundary values of the other fields.
Headers ==
    [category : {0, 5, 15}, tag : {167}, opcode : {20993}, background : {0, 1},
     len : {0, 6, 65535, 65536, 1418917, 2097151}, return_code : {4660},
     ext_status : {43981}]
    \cup [category : {5}, tag : {0, 167, 255}, opcode : {0, 20993, 65535},
          background : {1}, len : {1418917}, return_code : {0, 4660, 65535},
          ext_status : {0, 43981, 65535}]
    \cup {Obj(FMOB_HDR, 0, 0), Obj(FMOB_HDR, 1, 0)}

\* Inputs other than headers are named by the kind, the seed and the list
\* length of the object, by the vPPB total of a virtual switch block and the
\* vppbid_start and vppbid_limit of the request it answers, and by the size
\* of the buffer the caller provides.
Input(t, s, n, total, start, limit, cap) ==
    [kind |-> t, seed |-> s, n |-> n, total |-> total, start |-> start, limit |-> limit,
     cap |-> cap]

Inputs ==
    {Input(t, s, 0, 0, 0, 0, BufLen) : t \in FixedKinds, s \in Seeds}
    \cup UNION {{Input(t, s, n, 0, 0, 0, BufLen) : s \in Seeds, n \in Counts(t)} :
                   t \in ListKinds}
    \cup {Input(FMOB_VSC_INFO_BLK, MaxSeed, 0, total, start, limit, BufLen) :
             total \in {0, 2, 5, 10, 255}, start \in {0, 2, 5, 255},
             limit \in {0, 1, 3, 6}}
    \cup {Input(FMOB_VSC_INFO_RSP, MaxSeed, n, 0, r[1], r[2], BufLen) :
             n \in {0, 1, MaxCount, FM_MAX_VCS_PER_RSP, FM_MAX_VCS_PER_RSP + 1},
             r \in {<<2, 6>>, <<5, 3>>, <<0, 0>>}}

\* The request a virtual switch information object answers.
InputReq(d) ==
    IF d.kind \in {FMOB_VSC_INFO_BLK, FMOB_VSC_INFO_RSP}
    THEN vsc_info_req(d.start, d.limit) ELSE NULL

InputObj(d) ==
    CASE d.kind = FMOB_VSC_INFO_BLK ->
            vsc_info_blk(d.seed, d.total, ResponseCount(d.total, InputReq(d)))
      [] d.kind = FMOB_VSC_INFO_RSP -> vsc_info_rsp(d.seed, d.n, InputReq(d))
      [] OTHER -> Obj(d.kind, d.seed, d.n)

\* A destination object that still holds the result of an earlier decode.
Stale(type) ==
    CASE type = FMOB_VSC_INFO_BLK -> vsc_info_blk(MaxSeed, 9, MaxCount)
      [] type = FMOB_VSC_INFO_RSP -> vsc_info_rsp(MaxSeed, 2, vsc_info_req(0, 2))
      [] OTHER -> Obj(type, MaxSeed, MaxCount)

\* Kind values outside the enumeration.
InvalidTypes == {FMOB_MAX, FMOB_MAX + 1, 65535}

\* Opcodes: the 25 defined ones and values that are none of them.
DefinedOpcodes ==
    {FMOP_PSC_ID, FMOP_PSC_PORT, FMOP_PSC_PORT_CTRL, FMOP_PSC_CFG, FMOP_VSC_INFO,
     FMOP_VSC_BIND, FMOP_VSC_UNBIND, FMOP_VSC_AER, FMOP_MPC_TMC, FMOP_MPC_CFG,
     FMOP_MPC_MEM, FMOP_MCC_INFO, FMOP_MCC_ALLOC_GET, FMOP_MCC_ALLOC_SET,
     FMOP_MCC_QOS_CTRL_GET, FMOP_MCC_QOS_CTRL_SET, FMOP_MCC_QOS_STAT,
     FMOP_MCC_QOS_BW_ALLOC_GET, FMOP_MCC_QOS_BW_ALLOC_SET, FMOP_MCC_QOS_BW_LIMIT_GET,
     FMOP_MCC_QOS_BW_LIMIT_SET, FMOP_ISC_ID, FMOP_ISC_BOS, FMOP_ISC_MSG_LIMIT_GET,
     FMOP_ISC_MSG_LIMIT_SET}

Opcodes ==
    DefinedOpcodes
    \cup {0, 5, 255, 256, 20735, 20740, 21000, 21257, 21514, 65535, 65536 + FMOP_PSC_ID}
    \cup {op + 65536 : op \in {FMOP_ISC_ID, FMOP_MPC_TMC}}

\* The fields that share a wire byte with another field: the field, the wire
\* byte, the position and width of its bits there, and the number of low
\* bits of the field that go to other bytes.
Packed(f, byte, bit, w, sh) == [f |-> f, byte |-> byte, bit |-> bit, w |-> w, sh |-> sh]

PackedFields(type) ==
    CASE type = FMOB_HDR -> {Packed("background", 7, 0, 1, 0), Packed("len", 7, 3, 5, 16)}
      [] type = FMOB_ISC_BOS -> {Packed("running", 0, 0, 1, 0), Packed("pcnt", 0, 1, 7, 0)}
      [] type = FMOB_PSC_PORT_INFO ->
            {Packed("lane_rev", 13, FMLF_LANE_REVERSAL_BIT, 1, 0),
             Packed("perst", 13, FMLF_PERST_STATE_BIT, 1, 0),
             Packed("prsnt", 13, FMLF_PRSNT_STATE_BIT, 1, 0),
             Packed("pwrctrl", 13, FMLF_PWRCTL_STATE_BIT, 1, 0)}
      [] type \in {FMOB_PSC_CFG_REQ, FMOB_MPC_CFG_REQ} ->
            {Packed("ext", 2, 0, 4, 0), Packed("fdbe", 2, 4, 4, 0)}
      [] type = FMOB_MPC_MEM_REQ -> {Packed("ldbe", 3, 0, 4, 0), Packed("type", 3, 7, 1, 0)}
      [] type = FMOB_MCC_INFO_RSP ->
            {Packed("epc", 10, FMQT_EGRESS_PORT_CONGESTION_BIT, 1, 0),
             Packed("ttr", 10, FMQT_TEMP_THROUGHPUT_REDUCTION_BIT, 1, 0)}
      [] type = FMOB_MCC_QOS_CTRL ->
            {Packed("epc_en", 0, FMQT_EGRESS_PORT_CONGESTION_BIT, 1, 0),
             Packed("ttr_en", 0, FMQT_TEMP_THROUGHPUT_REDUCTION_BIT, 1, 0)}
      [] OTHER -> {}

\* The kinds whose packed fields are stored in a whole __u8 of the object,
\* which can hold more than the bits the wire has for them.
WideKinds == {FMOB_ISC_BOS, FMOB_PSC_PORT_INFO, FMOB_MCC_INFO_RSP, FMOB_MCC_QOS_CTRL}

\* Objects with one packed field set to a value wider than its wire bits.
WideInputs ==
    UNION {{[kind |-> t, seed |-> s, f |-> p.f, v |-> v] :
               s \in {0, 1}, p \in PackedFields(t), v \in {2, 3, 128, 254, 255}} :
           t \in WideKinds}

WideObj(d) == [Obj(d.kind, d.seed, 0) EXCEPT ![d.f] = d.v]

(* ------------------------------------------------------------------ *)
(* fmapi_fill_*: the command constructors                               *)
(*                                                                      *)
(* A message (struct fmapi_msg) is a record of its header, its buf      *)
(* pointer and the member of the obj union the command uses; the array  *)
(* members keep the entries a constructor does not store.  Each         *)
(* operator takes the message as it is before the call (NULL for a null *)
(* pointer) and the arguments as the ints the caller passes, and yields *)
(* the return value and the message after the call.                     *)
(* ------------------------------------------------------------------ *)
\* memset(&m->hdr, 0, sizeof(struct fmapi_hdr)); m->hdr.opcode = op;
ClearHdr(m, op) == [m EXCEPT !.hdr = [ZeroObj(FMOB_HDR) EXCEPT !.opcode = op]]

fmapi_fill_hdr(fh, category, tag, opcode, background, len, return_code, ext_status) ==
    IF fh = NULL THEN [rv |-> 0, fh |-> fh]
    ELSE [rv |-> FMLN_HDR + len,
          fh |-> [category |-> UBits(U8(category), 4), tag |-> U8(tag),
                  opcode |-> U16(opcode), background |-> UBits(U8(background), 1),
                  len |-> UBits(len, 21), return_code |-> U16(return_code),
                  ext_status |-> U16(ext_status)]]

\* Variant: a constructor that keeps the header as it finds it and stores
\* the opcode only.
fmapi_fill_isc_bos_stale_hdr(m) ==
    IF m = NULL THEN [rv |-> 1, m |-> m]
    ELSE [rv |-> 0, m |-> [m EXCEPT !.hdr.opcode = FMOP_ISC_BOS]]

fmapi_fill_isc_bos(m) ==
    IF m = NULL THEN [rv |-> 1, m |-> m]
    ELSE [rv |-> 0, m |-> ClearHdr(m, FMOP_ISC_BOS)]

fmapi_fill_isc_get_msg_limit(m) ==
    IF m = NULL THEN [rv |-> 1, m |-> m]
    ELSE [rv |-> 0, m |-> ClearHdr(m, FMOP_ISC_MSG_LIMIT_GET)]

fmapi_fill_isc_id(m) ==
    IF m = NULL THEN [rv |-> 1, m |-> m]
    ELSE [rv |-> 0, m |-> ClearHdr(m, FMOP_ISC_ID)]

fmapi_fill_isc_set_msg_limit(m, limit) ==
    IF m = NULL THEN [rv |-> 1, m |-> m]
    ELSE [rv |-> 0,
          m |-> [ClearHdr(m, FMOP_ISC_MSG_LIMIT_SET) EXCEPT !.obj.limit = U8(limit)]]

fmapi_fill_mcc_get_alloc(m, start, limit) ==
    LET lim == IF limit = 0 THEN 255 ELSE limit
    IN IF m = NULL THEN [rv |-> 1, m |-> m]
       ELSE [rv |-> 0,
             m |-> [ClearHdr(m, FMOP_MCC_ALLOC_GET) EXCEPT
                       !.obj.start = U8(start), !.obj.limit = U8(lim)]]

fmapi_fill_mcc_get_info(m) ==
    IF m = NULL THEN [rv |-> 1, m |-> m]
    ELSE [rv |-> 0, m |-> ClearHdr(m, FMOP_MCC_INFO)]

fmapi_fill_mcc_get_qos_alloc(m, start, limit) ==
    LET lim == IF limit = 0 THEN 255 ELSE limit
    IN IF m = NULL THEN [rv |-> 1, m |-> m]
       ELSE [rv |-> 0,
             m |-> [ClearHdr(m, FMOP_MCC_QOS_BW_ALLOC_GET) EXCEPT
                       !.obj.start = U8(start), !.obj.num = U8(lim)]]

fmapi_fill_mcc_get_qos_ctrl(m) ==
    IF m = NULL THEN [rv |-> 1, m |-> m]
    ELSE [rv |-> 0, m |-> ClearHdr(m, FMOP_MCC_QOS_CTRL_GET)]

fmapi_fill_mcc_get_qos_limit(m, start, limit) ==
    LET lim == IF limit = 0 THEN 16 ELSE limit
    IN IF m = NULL THEN [rv |-> 1, m |-> m]
       ELSE [rv |-> 0,
             m |-> [ClearHdr(m, FMOP_MCC_QOS_BW_LIMIT_GET) EXCEPT
                       !.obj.start = U8(start), !.obj.num = U8(lim)]]

fmapi_fill_mcc_get_qos_status(m) ==
    IF m = NULL THEN [rv |-> 1, m |-> m]
    ELSE [rv |-> 0, m |-> ClearHdr(m, FMOP_MCC_QOS_STAT)]

\* rng1 and rng2 are the caller's arrays; the loop runs for i < num
fmapi_fill_mcc_set_alloc(m, start, num, rng1, rng2) ==
    IF m = NULL THEN [rv |-> 1, m |-> m]
    ELSE [rv |-> 0,
          m |-> [ClearHdr(m, FMOP_MCC_ALLOC_SET) EXCEPT
                    !.obj.num = U8(num), !.obj.start = U8(start),
                    !.obj.list = Overlay(@, [i \in 1..num |->
                                               [rng1 |-> rng1[i], rng2 |-> rng2[i]]])]]

fmapi_fill_mcc_set_qos_alloc(m, start, num, list) ==
    IF m = NULL THEN [rv |-> 1, m |-> m]
    ELSE [rv |-> 0,
          m |-> [ClearHdr(m, FMOP_MCC_QOS_BW_ALLOC_SET) EXCEPT
                    !.obj.num = U8(num), !.obj.start = U8(start),
                    !.obj.list = Overlay(@, [i \in 1..num |-> list[i]])]]

fmapi_fill_mcc_set_qos_ctrl(m, epc, ttr, mod, sev, si, rcb, ci) ==
    IF m = NULL THEN [rv |-> 1, m |-> m]
    ELSE [rv |-> 0,
          m |-> [ClearHdr(m, FMOP_MCC_QOS_CTRL_SET) EXCEPT
                    !.obj.epc_en = U8(epc), !.obj.ttr_en = U8(ttr),
                    !.obj.egress_mod_pcnt = U8(mod), !.obj.egress_sev_pcnt = U8(sev),
                    !.obj.sample_interval = U8(si), !.obj.rcb = U16(rcb),
                    !.obj.comp_interval = U8(ci)]]

fmapi_fill_mcc_set_qos_limit(m, start, num, list) ==
    IF m = NULL THEN [rv |-> 1, m |-> m]
    ELSE [rv |-> 0,
          m |-> [ClearHdr(m, FMOP_MCC_QOS_BW_LIMIT_SET) EXCEPT
                    !.obj.num = U8(num), !.obj.start = U8(start),
                    !.obj.list = Overlay(@, [i \in 1..num |-> list[i]])]]

fmapi_fill_mpc_cfg(m, ppid, ldid, reg, ext, fdbe, type, data) ==
    IF m = NULL THEN [rv |-> 1, m |-> m]
    ELSE [rv |-> 0,
          m |-> [ClearHdr(m, FMOP_MPC_CFG) EXCEPT
                    !.obj.ppid = U8(ppid), !.obj.ldid = U16(ldid), !.obj.reg = U8(reg),
                    !.obj.ext = UBits(ext, 4), !.obj.fdbe = UBits(fdbe, 4),
                    !.obj.type = UBits(type, 1), !.obj.data = Prefix(data, 4)]]

fmapi_fill_mpc_mem(m, ppid, ldid, offset, len, fdbe, ldbe, type, data) ==
    IF m = NULL THEN [rv |-> 1, m |-> m]
    ELSE [rv |-> 0,
          m |-> [ClearHdr(m, FMOP_MPC_MEM) EXCEPT
                    !.obj.ppid = U8(ppid), !.obj.ldid = U16(ldid), !.obj.offset = offset,
                    !.obj.len = U16(len), !.obj.fdbe = UBits(fdbe, 4),
                    !.obj.ldbe = UBits(ldbe, 4), !.obj.type = UBits(type, 1),
                    !.obj.data = Overlay(@, Prefix(data, len))]]

\* Variant: a tunnel constructor that leaves the length field of the inner
\* header as the caller set it.
fmapi_fill_mpc_tmc_keep_sub_len(m, ppid, type, sub) ==
    LET sub1 == [sub EXCEPT !.buf = IF m = NULL THEN "null->obj.mpc_tmc_req.msg"
                                    ELSE "m->obj.mpc_tmc_req.msg"]
    IN IF m = NULL THEN [rv |-> 1, m |-> m, sub |-> sub1]
       ELSE LET msg == [i \in 0..(Len(m.obj.msg) - 1) |-> m.obj.msg[i + 1]]
                s == fmapi_serialize(msg, FMLN_HDR, sub.obj, fmapi_fmob_req(sub.hdr.opcode))
                f == fmapi_fill_hdr(sub.hdr, FMMT_REQ, 0, sub.hdr.opcode, 0, sub.hdr.len, 0, 0)
                h == fmapi_serialize(s.dst, 0, f.fh, FMOB_HDR)
            IN [rv |-> 0,
                m |-> [ClearHdr(m, FMOP_MPC_TMC) EXCEPT
                          !.obj.len = U16(FMLN_HDR + s.rv), !.obj.type = U8(type),
                          !.obj.ppid = U8(ppid),
                          !.obj.msg = Get(h.dst, 0, Len(m.obj.msg))],
                sub |-> [sub1 EXCEPT !.hdr = f.fh]]

\* Variant: a tunnel constructor that stores the length of the inner
\* payload, without the inner header, as the length of the tunnel.
fmapi_fill_mpc_tmc_payload_len(m, ppid, type, sub) ==
    LET sub1 == [sub EXCEPT !.buf = IF m = NULL THEN "null->obj.mpc_tmc_req.msg"
                                    ELSE "m->obj.mpc_tmc_req.msg"]
    IN IF m = NULL THEN [rv |-> 1, m |-> m, sub |-> sub1]
       ELSE LET msg == [i \in 0..(Len(m.obj.msg) - 1) |-> m.obj.msg[i + 1]]
                s == fmapi_serialize(msg, FMLN_HDR, sub.obj, fmapi_fmob_req(sub.hdr.opcode))
                f == fmapi_fill_hdr(sub.hdr, FMMT_REQ, 0, sub.hdr.opcode, 0, s.rv, 0, 0)
                h == fmapi_serialize(s.dst, 0, f.fh, FMOB_HDR)
            IN [rv |-> 0,
                m |-> [ClearHdr(m, FMOP_MPC_TMC) EXCEPT
                          !.obj.len = U16(s.rv), !.obj.type = U8(type),
                          !.obj.ppid = U8(ppid),
                          !.obj.msg = Get(h.dst, 0, Len(m.obj.msg))],
                sub |-> [sub1 EXCEPT !.hdr = f.fh]]

\* sub->buf is pointed at m->obj.mpc_tmc_req.msg before m is checked (with
\* a null m the pointer is the offset of that member from the null
\* pointer); the inner payload is encoded at sub->buf->payload, which is
\* msg + FMLN_HDR, and the inner header at sub->buf->hdr, which is msg.
fmapi_fill_mpc_tmc(m, ppid, type, sub) ==
    LET sub1 == [sub EXCEPT !.buf = IF m = NULL THEN "null->obj.mpc_tmc_req.msg"
                                    ELSE "m->obj.mpc_tmc_req.msg"]
    IN IF m = NULL THEN [rv |-> 1, m |-> m, sub |-> sub1]
       ELSE LET msg == [i \in 0..(Len(m.obj.msg) - 1) |-> m.obj.msg[i + 1]]
                s == fmapi_serialize(msg, FMLN_HDR, sub.obj, fmapi_fmob_req(sub.hdr.opcode))
                f == fmapi_fill_hdr(sub.hdr, FMMT_REQ, 0, sub.hdr.opcode, 0, s.rv, 0, 0)
                h == fmapi_serialize(s.dst, 0, f.fh, FMOB_HDR)
            IN [rv |-> 0,
                m |-> [ClearHdr(m, FMOP_MPC_TMC) EXCEPT
                          !.obj.len = U16(f.rv), !.obj.type = U8(type),
                          !.obj.ppid = U8(ppid),
                          !.obj.msg = Get(h.dst, 0, Len(m.obj.msg))],
                sub |-> [sub1 EXCEPT !.hdr = f.fh]]

fmapi_fill_psc_id(m) ==
    IF m = NULL THEN [rv |-> 1, m |-> m]
    ELSE [rv |-> 0, m |-> ClearHdr(m, FMOP_PSC_ID)]

\* Variant: a constructor that lists the 255 port ids from 1 on.
fmapi_fill_psc_get_all_ports_from_one(m) ==
    IF m = NULL THEN [rv |-> 1, m |-> m]
    ELSE [rv |-> 0,
          m |-> [ClearHdr(m, FMOP_PSC_PORT) EXCEPT
                    !.obj.num = 255,
                    !.obj.ports = Overlay(@, [i \in 1..255 |-> i])]]

fmapi_fill_psc_get_all_ports(m) ==
    IF m = NULL THEN [rv |-> 1, m |-> m]
    ELSE [rv |-> 0,
          m |-> [ClearHdr(m, FMOP_PSC_PORT) EXCEPT
                    !.obj.num = 255,
                    !.obj.ports = Overlay(@, [i \in 1..255 |-> i - 1])]]

fmapi_fill_psc_get_port(m, port) ==
    IF m = NULL THEN [rv |-> 1, m |-> m]
    ELSE [rv |-> 0,
          m |-> [ClearHdr(m, FMOP_PSC_PORT) EXCEPT
                    !.obj.num = 1, !.obj.ports = Overlay(@, << U8(port) >>)]]

fmapi_fill_psc_get_ports(m, num, list) ==
    IF m = NULL THEN [rv |-> 1, m |-> m]
    ELSE [rv |-> 0,
          m |-> [ClearHdr(m, FMOP_PSC_PORT) EXCEPT
                    !.obj.num = U8(num),
                    !.obj.ports = Overlay(@, [i \in 1..num |-> list[i]])]]

\* data may be a null pointer: the data of the object is then left as it is
fmapi_fill_psc_cfg(m, ppid, reg, ext, fdbe, type, data) ==
    IF m = NULL THEN [rv |-> 1, m |-> m]
    ELSE [rv |-> 0,
          m |-> [ClearHdr(m, FMOP_PSC_CFG) EXCEPT
                    !.obj.ppid = U8(ppid), !.obj.reg = UBits(reg, 8),
                    !.obj.ext = UBits(ext, 4), !.obj.fdbe = UBits(fdbe, 4),
                    !.obj.type = UBits(type, 1),
                    !.obj.data = IF data # NULL THEN Prefix(data, 4) ELSE @]]

fmapi_fill_psc_port_ctrl(m, ppid, opcode) ==
    IF m = NULL THEN [rv |-> 1, m |-> m]
    ELSE [rv |-> 0,
          m |-> [ClearHdr(m, FMOP_PSC_PORT_CTRL) EXCEPT
                    !.obj.ppid = U8(ppid), !.obj.opcode = U8(opcode)]]

fmapi_fill_vsc_aer(m, vcsid, vppbid, type, header) ==
    IF m = NULL THEN [rv |-> 1, m |-> m]
    ELSE [rv |-> 0,
          m |-> [ClearHdr(m, FMOP_VSC_AER) EXCEPT
                    !.obj.vcsid = U8(vcsid), !.obj.vppbid = U8(vppbid),
                    !.obj.error_type = type, !.obj.header = Prefix(header, 32)]]

\* Variant: a bind constructor that stores the physical port where the
\* vPPB belongs and the vPPB where the port belongs.
fmapi_fill_vsc_bind_swapped(m, vcsid, vppbid, ppid, ldid) ==
    IF m = NULL THEN [rv |-> 1, m |-> m]
    ELSE [rv |-> 0,
          m |-> [ClearHdr(m, FMOP_VSC_BIND) EXCEPT
                    !.obj.vcsid = U8(vcsid), !.obj.vppbid = U8(ppid),
                    !.obj.ppid = U8(vppbid), !.obj.ldid = U16(ldid)]]

\* Variant: a bind constructor that never sets its result to 0.
fmapi_fill_vsc_bind_rv_unset(m, vcsid, vppbid, ppid, ldid) ==
    IF m = NULL THEN [rv |-> 1, m |-> m]
    ELSE [rv |-> 1,
          m |-> [ClearHdr(m, FMOP_VSC_BIND) EXCEPT
                    !.obj.vcsid = U8(vcsid), !.obj.vppbid = U8(vppbid),
                    !.obj.ppid = U8(ppid), !.obj.ldid = U16(ldid)]]

fmapi_fill_vsc_bind(m, vcsid, vppbid, ppid, ldid) ==
    IF m = NULL THEN [rv |-> 1, m |-> m]
    ELSE [rv |-> 0,
          m |-> [ClearHdr(m, FMOP_VSC_BIND) EXCEPT
                    !.obj.vcsid = U8(vcsid), !.obj.vppbid = U8(vppbid),
                    !.obj.ppid = U8(ppid), !.obj.ldid = U16(ldid)]]

fmapi_fill_vsc_get_vcs(m, vcsid, start, limit) ==
    IF m = NULL THEN [rv |-> 1, m |-> m]
    ELSE [rv |-> 0,
          m |-> [ClearHdr(m, FMOP_VSC_INFO) EXCEPT
                    !.obj.num = 1, !.obj.vcss = Overlay(@, << U8(vcsid) >>),
                    !.obj.vppbid_start = U8(start), !.obj.vppbid_limit = U8(limit)]]

fmapi_fill_vsc_unbind(m, vcsid, vppbid, option) ==
    IF m = NULL THEN [rv |-> 1, m |-> m]
    ELSE [rv |-> 0,
          m |-> [ClearHdr(m, FMOP_VSC_UNBIND) EXCEPT
                    !.obj.vcsid = U8(vcsid), !.obj.vppbid = U8(vppbid),
                    !.obj.option = UBits(option, 4)]]

\* The commands: for each constructor the opcode it stores in the header and
\* the member of the obj union it stores into, named by the kind of the
\* member's struct (FMOB_NULL for the constructors that store into none).
Command(fn) ==
    CASE fn = "fmapi_fill_isc_bos" ->
            [opcode |-> FMOP_ISC_BOS, member |-> FMOB_NULL]
      [] fn = "fmapi_fill_isc_get_msg_limit" ->
            [opcode |-> FMOP_ISC_MSG_LIMIT_GET, member |-> FMOB_NULL]
      [] fn = "fmapi_fill_isc_id" ->
            [opcode |-> FMOP_ISC_ID, member |-> FMOB_NULL]
      [] fn = "fmapi_fill_isc_set_msg_limit" ->
            [opcode |-> FMOP_ISC_MSG_LIMIT_SET, member |-> FMOB_ISC_MSG_LIMIT]
      [] fn = "fmapi_fill_mcc_get_alloc" ->
            [opcode |-> FMOP_MCC_ALLOC_GET, member |-> FMOB_MCC_ALLOC_GET_REQ]
      [] fn = "fmapi_fill_mcc_get_info" ->
            [opcode |-> FMOP_MCC_INFO, member |-> FMOB_NULL]
      [] fn = "fmapi_fill_mcc_get_qos_alloc" ->
            [opcode |-> FMOP_MCC_QOS_BW_ALLOC_GET, member |-> FMOB_MCC_QOS_BW_GET_REQ]
      [] fn = "fmapi_fill_mcc_get_qos_ctrl" ->
            [opcode |-> FMOP_MCC_QOS_CTRL_GET, member |-> FMOB_NULL]
      [] fn = "fmapi_fill_mcc_get_qos_limit" ->
            [opcode |-> FMOP_MCC_QOS_BW_LIMIT_GET, member |-> FMOB_MCC_QOS_BW_LIMIT_GET_REQ]
      [] fn = "fmapi_fill_mcc_get_qos_status" ->
            [opcode |-> FMOP_MCC_QOS_STAT, member |-> FMOB_NULL]
      [] fn = "fmapi_fill_mcc_set_alloc" ->
            [opcode |-> FMOP_MCC_ALLOC_SET, member |-> FMOB_MCC_ALLOC_SET_REQ]
      [] fn = "fmapi_fill_mcc_set_qos_alloc" ->
            [opcode |-> FMOP_MCC_QOS_BW_ALLOC_SET, member |-> FMOB_MCC_QOS_BW_ALLOC]
      [] fn = "fmapi_fill_mcc_set_qos_ctrl" ->
            [opcode |-> FMOP_MCC_QOS_CTRL_SET, member |-> FMOB_MCC_QOS_CTRL]
      [] fn = "fmapi_fill_mcc_set_qos_limit" ->
            [opcode |-> FMOP_MCC_QOS_BW_LIMIT_SET, member |-> FMOB_MCC_QOS_BW_LIMIT]
      [] fn = "fmapi_fill_mpc_cfg" ->
            [opcode |-> FMOP_MPC_CFG, member |-> FMOB_MPC_CFG_REQ]
      [] fn = "fmapi_fill_mpc_mem" ->
            [opcode |-> FMOP_MPC_MEM, member |-> FMOB_MPC_MEM_REQ]
      [] fn = "fmapi_fill_mpc_tmc" ->
            [opcode |-> FMOP_MPC_TMC, member |-> FMOB_MPC_TMC_REQ]
      [] fn = "fmapi_fill_psc_id" ->
            [opcode |-> FMOP_PSC_ID, member |-> FMOB_NULL]
      [] fn = "fmapi_fill_psc_get_all_ports" ->
            [opcode |-> FMOP_PSC_PORT, member |-> FMOB_PSC_PORT_REQ]
      [] fn = "fmapi_fill_psc_get_port" ->
            [opcode |-> FMOP_PSC_PORT, member |-> FMOB_PSC_PORT_REQ]
      [] fn = "fmapi_fill_psc_get_ports" ->
            [opcode |-> FMOP_PSC_PORT, member |-> FMOB_PSC_PORT_REQ]
      [] fn = "fmapi_fill_psc_cfg" ->
            [opcode |-> FMOP_PSC_CFG, member |-> FMOB_PSC_CFG_REQ]
      [] fn = "fmapi_fill_psc_port_ctrl" ->
            [opcode |-> FMOP_PSC_PORT_CTRL, member |-> FMOB_PSC_PORT_CTRL_REQ]
      [] fn = "fmapi_fill_vsc_aer" ->
            [opcode |-> FMOP_VSC_AER, member |-> FMOB_VSC_AER_REQ]
      [] fn = "fmapi_fill_vsc_bind" ->
            [opcode |-> FMOP_VSC_BIND, member |-> FMOB_VSC_BIND_REQ]
      [] fn = "fmapi_fill_vsc_get_vcs" ->
            [opcode |-> FMOP_VSC_INFO, member |-> FMOB_VSC_INFO_REQ]
      [] fn = "fmapi_fill_vsc_unbind" ->
            [opcode |-> FMOP_VSC_UNBIND, member |-> FMOB_VSC_UNBIND_REQ]
      [] OTHER -> [opcode |-> 0, member |-> FMOB_NULL]

\* The k-th int argument of a call, for a field of w bits: 0, the largest
\* value of the field, a value inside the field, a value of more bits than
\* the field has, -1, and the values 0x42, 0x0A, 0x0B, 0x0C0D.
IntArg(v, k, w) ==
    CASE v = 0 -> 0
      [] v = 1 -> Pow2(w) - 1
      [] v = 2 -> Val(2, k, w)
      [] v = 3 -> Pow2(w) + Val(2, k, w)
      [] v = 4 -> 0 - 1
      [] OTHER -> << 66, 10, 11, 3085, 1, 2, 3 >>[k]

\* A call of a constructor: the constructor, whether m is a null pointer,
\* the seed of what the message holds before the call, the choice of the
\* int arguments, the count argument and the seed of the caller's arrays,
\* whether the data pointer is null, and the inner message of a tunnel.
FillCall(fn, null, s, v, n, ls, nodata, sub) ==
    [fn |-> fn, null |-> null, s |-> s, v |-> v, n |-> n, ls |-> ls, nodata |-> nodata,
     sub |-> sub]

\* The inner messages a tunnel command wraps, each built by a constructor:
\* Get LD Info (no payload), Get LD Allocations, Set QoS Control, Set LD
\* Allocations with MaxCount entries, and Bind.
SubCalls ==
    << FillCall("fmapi_fill_mcc_get_info", 0, 0, 0, 0, 0, 0, 0),
       FillCall("fmapi_fill_mcc_get_alloc", 0, 2, 2, 0, 0, 0, 0),
       FillCall("fmapi_fill_mcc_set_qos_ctrl", 0, 2, 1, 0, 0, 0, 0),
       FillCall("fmapi_fill_mcc_set_alloc", 0, 0, 2, MaxCount, 2, 0, 0),
       FillCall("fmapi_fill_vsc_bind", 0, 2, 5, 0, 0, 0, 0) >>

\* The calls made: the constructors without arguments, those with int
\* arguments, those with a count and arrays, the configuration command
\* with a null data pointer, the tunnel with each inner message, and every
\* constructor with a null m.
FillCalls ==
    LET PlainFills ==
            {"fmapi_fill_isc_bos", "fmapi_fill_isc_get_msg_limit", "fmapi_fill_isc_id",
             "fmapi_fill_mcc_get_info", "fmapi_fill_mcc_get_qos_ctrl",
             "fmapi_fill_mcc_get_qos_status", "fmapi_fill_psc_id",
             "fmapi_fill_psc_get_all_ports"}
        IntFills ==
            {"fmapi_fill_isc_set_msg_limit", "fmapi_fill_mcc_get_alloc",
             "fmapi_fill_mcc_get_qos_alloc", "fmapi_fill_mcc_get_qos_limit",
             "fmapi_fill_mcc_set_qos_ctrl", "fmapi_fill_mpc_cfg", "fmapi_fill_psc_get_port",
             "fmapi_fill_psc_cfg", "fmapi_fill_psc_port_ctrl", "fmapi_fill_vsc_aer",
             "fmapi_fill_vsc_bind", "fmapi_fill_vsc_get_vcs", "fmapi_fill_vsc_unbind"}
        ArrayFills ==
            {"fmapi_fill_mcc_set_alloc", "fmapi_fill_mcc_set_qos_alloc",
             "fmapi_fill_mcc_set_qos_limit", "fmapi_fill_mpc_mem", "fmapi_fill_psc_get_ports"}
    IN {FillCall(fn, 0, s, 0, 0, 0, 0, 0) : fn \in PlainFills, s \in Seeds}
       \cup {FillCall(fn, 0, s, v, 0, 2, 0, 0) : fn \in IntFills, s \in {0, 2}, v \in 0..5}
       \cup {FillCall(fn, 0, 2, v, n, ls, 0, 0) :
                fn \in ArrayFills, v \in {1, 3}, n \in {0, 1, MaxCount}, ls \in {1, 2}}
       \cup {FillCall("fmapi_fill_psc_cfg", 0, s, 2, 0, 0, 1, 0) : s \in Seeds}
       \cup {FillCall("fmapi_fill_mpc_tmc", 0, s, v, 0, 0, 0, sub) :
                s \in {0, 2}, v \in {1, 5}, sub \in 1..(2 * Len(SubCalls))}
       \cup {FillCall(fn, 1, 0, 2, 1, 2, 0, 1) :
                fn \in PlainFills \cup IntFills \cup ArrayFills \cup {"fmapi_fill_mpc_tmc"}}

\* The message a call is made on: the header and the union member hold
\* what the seed says (seed 0 is a cleared message).
FillMsg(d) ==
    IF d.null = 1 THEN NULL
    ELSE [hdr |-> Obj(FMOB_HDR, d.s, 0), buf |-> "none",
          obj |-> Obj(Command(d.fn).member, d.s,
                      IF d.fn = "fmapi_fill_mpc_tmc" THEN TunnelLen ELSE MaxCount)]

\* The call d made on the message m (and, for a tunnel, the inner message
\* sub): the return value and both messages after the call.
fmapi_fill(d, m, sub) ==
    LET a(k, w) == IntArg(d.v, k, w)
        bytes(k, n) == ValBytes(d.ls, k, n)
        blk(i) == mcc_alloc_blk((d.ls + i) % (MaxSeed + 1))
        r == CASE d.fn = "fmapi_fill_isc_bos" -> fmapi_fill_isc_bos(m)
               [] d.fn = "fmapi_fill_isc_get_msg_limit" -> fmapi_fill_isc_get_msg_limit(m)
               [] d.fn = "fmapi_fill_isc_id" -> fmapi_fill_isc_id(m)
               [] d.fn = "fmapi_fill_isc_set_msg_limit" ->
                     fmapi_fill_isc_set_msg_limit(m, U8(a(1, 8)))
               [] d.fn = "fmapi_fill_mcc_get_alloc" ->
                     fmapi_fill_mcc_get_alloc(m, a(1, 8), a(2, 8))
               [] d.fn = "fmapi_fill_mcc_get_info" -> fmapi_fill_mcc_get_info(m)
               [] d.fn = "fmapi_fill_mcc_get_qos_alloc" ->
                     fmapi_fill_mcc_get_qos_alloc(m, a(1, 8), a(2, 8))
               [] d.fn = "fmapi_fill_mcc_get_qos_ctrl" -> fmapi_fill_mcc_get_qos_ctrl(m)
               [] d.fn = "fmapi_fill_mcc_get_qos_limit" ->
                     fmapi_fill_mcc_get_qos_limit(m, a(1, 8), a(2, 8))
               [] d.fn = "fmapi_fill_mcc_get_qos_status" -> fmapi_fill_mcc_get_qos_status(m)
               [] d.fn = "fmapi_fill_mcc_set_alloc" ->
                     fmapi_fill_mcc_set_alloc(m, a(1, 8), d.n,
                                              [i \in 1..d.n |-> blk(i).rng1],
                                              [i \in 1..d.n |-> blk(i).rng2])
               [] d.fn = "fmapi_fill_mcc_set_qos_alloc" ->
                     fmapi_fill_mcc_set_qos_alloc(m, a(1, 8), d.n, bytes(2, d.n))
               [] d.fn = "fmapi_fill_mcc_set_qos_ctrl" ->
                     fmapi_fill_mcc_set_qos_ctrl(m, a(1, 8), a(2, 8), a(3, 8), a(4, 8),
                                                 a(5, 8), a(6, 16), a(7, 8))
               [] d.fn = "fmapi_fill_mcc_set_qos_limit" ->
                     fmapi_fill_mcc_set_qos_limit(m, a(1, 8), d.n, bytes(2, d.n))
               [] d.fn = "fmapi_fill_mpc_cfg" ->
                     fmapi_fill_mpc_cfg(m, a(1, 8), a(2, 16), a(3, 8), a(4, 4), a(5, 4),
                                        a(6, 1), bytes(7, 4))
               [] d.fn = "fmapi_fill_mpc_mem" ->
                     fmapi_fill_mpc_mem(m, a(1, 8), a(2, 16), Val64(d.ls, 6), d.n, a(3, 4),
                                        a(4, 4), a(5, 1), bytes(10, d.n))
               [] d.fn = "fmapi_fill_psc_id" -> fmapi_fill_psc_id(m)
               [] d.fn = "fmapi_fill_psc_get_all_ports" -> fmapi_fill_psc_get_all_ports(m)
               [] d.fn = "fmapi_fill_psc_get_port" -> fmapi_fill_psc_get_port(m, U8(a(1, 8)))
               [] d.fn = "fmapi_fill_psc_get_ports" ->
                     fmapi_fill_psc_get_ports(m, d.n, bytes(1, d.n))
               [] d.fn = "fmapi_fill_psc_cfg" ->
                     fmapi_fill_psc_cfg(m, a(1, 8), a(2, 8), a(3, 4), a(4, 4), a(5, 1),
                                        IF d.nodata = 1 THEN NULL ELSE bytes(6, 4))
               [] d.fn = "fmapi_fill_psc_port_ctrl" ->
                     fmapi_fill_psc_port_ctrl(m, a(1, 8), a(2, 8))
               [] d.fn = "fmapi_fill_vsc_aer" ->
                     fmapi_fill_vsc_aer(m, a(1, 8), a(2, 8), Val32(d.ls, 3), bytes(5, 32))
               [] d.fn = "fmapi_fill_vsc_bind" ->
                     fmapi_fill_vsc_bind(m, a(1, 8), a(2, 8), a(3, 8), a(4, 16))
               [] d.fn = "fmapi_fill_vsc_get_vcs" ->
                     fmapi_fill_vsc_get_vcs(m, a(1, 8), a(2, 8), a(3, 8))
               [] d.fn = "fmapi_fill_vsc_unbind" ->
                     fmapi_fill_vsc_unbind(m, a(1, 8), a(2, 8), a(3, 4))
    IN IF d.fn = "fmapi_fill_mpc_tmc" THEN fmapi_fill_mpc_tmc(m, a(1, 8), a(2, 8), sub)
       ELSE [rv |-> r.rv, m |-> r.m, sub |-> sub]

\* The inner message of a tunnel call: a message as a constructor built it
\* or, for the second half of the choices, such a message whose header the
\* caller has filled in since.
SubMsg(d) ==
    IF d.fn # "fmapi_fill_mpc_tmc" THEN NULL
    ELSE LET c == SubCalls[((d.sub - 1) % Len(SubCalls)) + 1]
             b == fmapi_fill(c, FillMsg(c), NULL).m
         IN [b EXCEPT !.hdr = IF d.sub <= Len(SubCalls) THEN @
                              ELSE [Obj(FMOB_HDR, 2, 0) EXCEPT !.opcode = Command(c.fn).opcode]]

(* ------------------------------------------------------------------ *)
(* Concurrent callers                                                   *)
(*                                                                      *)
(* Two callers each make one call on memory of their own: a buffer, a   *)
(* header and an object of struct fmapi_mcc_alloc_set_req.  A call runs *)
(* as its statements do: the stores before the loop, one loop iteration *)
(* at a time, and the return.                                           *)
(* ------------------------------------------------------------------ *)
Callers == {1, 2}

\* The call of a caller: the function, the count of the list it handles
\* and the seed of its data.
Job(fn, n, s) == [fn |-> fn, n |-> n, s |-> s]

\* fmapi_deserialize of a payload of 0, 2 or FM_MAX_NUM_LD + 1 allocation
\* blocks, fmapi_serialize of an object of 1 or 2, and
\* fmapi_fill_mcc_set_alloc with 2.
Jobs(s) ==
    {Job("fmapi_deserialize", n, s) : n \in {0, 2, FM_MAX_NUM_LD + 1}}
    \cup {Job("fmapi_serialize", n, s) : n \in {1, 2}}
    \cup {Job("fmapi_fill_mcc_set_alloc", 2, s)}

\* The memory of a caller before its call: the buffer (for a decode, the
\* bytes of a message of j.n blocks), the header and the object.
JobHeap(j) ==
    [buf |-> IF j.fn = "fmapi_deserialize"
             THEN fmapi_serialize([i \in 0..(BufLen - 1) |-> 0], 0,
                                  Obj(FMOB_MCC_ALLOC_SET_REQ, j.s, j.n),
                                  FMOB_MCC_ALLOC_SET_REQ).dst
             ELSE [i \in 0..(BufLen - 1) |-> 165],
     hdr |-> Obj(FMOB_HDR, j.s, 0),
     o |-> IF j.fn = "fmapi_serialize" THEN Obj(FMOB_MCC_ALLOC_SET_REQ, j.s, j.n)
           ELSE Obj(FMOB_MCC_ALLOC_SET_REQ, MaxSeed, 1)]

\* The arrays rng1 and rng2 a caller passes to fmapi_fill_mcc_set_alloc.
JobRanges(j) == [i \in 1..j.n |-> mcc_alloc_blk((j.s + i) % (MaxSeed + 1))]

\* The object of the caller whose memory starts where the array list[] of
\* its neighbour ends, after the neighbour stored the allocation block e in
\* list[FM_MAX_NUM_LD]: the 8 bytes of rng1 lie on num, start and the
\* padding before list[0], the 8 bytes of rng2 on list[0].rng1.
Trample(o, e) ==
    [o EXCEPT !.num = ByteOf(e.rng1, 0), !.start = ByteOf(e.rng1, 1),
              !.list = Overlay(@, << [rng1 |-> e.rng2,
                                      rng2 |-> Elem(o.list, 0,
                                                    ZeroObj(FMOB_MCC_ALLOC_BLK)).rng2] >>)]

\* What the call j leaves in the caller's memory and returns when no other
\* call runs.
Alone(j) ==
    LET h == JobHeap(j)
    IN CASE j.fn = "fmapi_deserialize" ->
               LET r == fmapi_deserialize(h.o, h.buf, 0, FMOB_MCC_ALLOC_SET_REQ, NULL)
               IN [rv |-> r.rv, buf |-> h.buf, hdr |-> h.hdr, o |-> r.obj]
         [] j.fn = "fmapi_serialize" ->
               LET r == fmapi_serialize(h.buf, 0, h.o, FMOB_MCC_ALLOC_SET_REQ)
               IN [rv |-> r.rv, buf |-> r.dst, hdr |-> h.hdr, o |-> h.o]
         [] OTHER ->
               LET r == fmapi_fill_mcc_set_alloc(
                            [hdr |-> h.hdr, buf |-> "none", obj |-> h.o], j.s, j.n,
                            [i \in 1..j.n |-> JobRanges(j)[i].rng1],
                            [i \in 1..j.n |-> JobRanges(j)[i].rng2])
               IN [rv |-> r.rv, buf |-> h.buf, hdr |-> r.m.hdr, o |-> r.m.obj]

(* ------------------------------------------------------------------ *)
(* The calls a program makes into the library                           *)
(* ------------------------------------------------------------------ *)
VARIABLES
    layout,   \* where the second caller's object lies: "adjacent" (it is the
              \* next element of an array of objects, right behind the first
              \* caller's) or "apart"
    job,      \* the call each concurrent caller makes
    heap,     \* the memory of each concurrent caller
    frame,    \* the locals of each concurrent call: the statement it is at,
              \* i and rv, and the caller's memory as the call returned
    pc,       \* "idle", "filled", "hdr_filled", "serialized", "deserialized",
              \* "looked", "received", "decoded" or "calls"
    hlen,     \* the len in the header of a received message
    call,     \* the constructor call made
    m0,       \* the message before the constructor call (NULL for a null m),
              \* or the header before fmapi_fill_hdr
    m,        \* the message after it
    sub0,     \* the inner message before a tunnel constructor call
    sub,      \* the inner message after it
    frv,      \* what the constructor returned
    kind,     \* kind of the object handed to fmapi_serialize
    obj,      \* the object handed to fmapi_serialize
    req,      \* the request the object answers, or NULL
    fill,     \* what every byte of the buffer held before fmapi_serialize
    stype,    \* the type argument of fmapi_serialize
    buf,      \* the buffer after fmapi_serialize
    srv,      \* what fmapi_serialize returned
    dtype,    \* the type argument of fmapi_deserialize
    param,    \* the param argument of fmapi_deserialize
    dst0,     \* the destination object before fmapi_deserialize
    dst,      \* the destination object after fmapi_deserialize
    drv,      \* what fmapi_deserialize returned
    rd,       \* the buffer offsets fmapi_deserialize read
    opcode,   \* the opcode looked up
    fmob      \* what fmapi_fmob_req and fmapi_fmob_rsp returned for it

vars == << layout, job, heap, frame, pc, hlen, call, m0, m, sub0, sub, frv, kind, obj, req, fill, stype, buf, srv, dtype, param, dst0, dst, drv, rd,
           opcode, fmob >>

Init ==
    /\ layout = "apart"
    /\ job = [t \in Callers |-> Job("none", 0, 0)]
    /\ heap = [t \in Callers |-> NULL]
    /\ frame = [t \in Callers |-> [at |-> "none", i |-> 0, rv |-> 0, out |-> NULL]]
    /\ pc = "idle"
    /\ hlen = 0
    /\ call = FillCall("none", 0, 0, 0, 0, 0, 0, 0)
    /\ m0 = NULL /\ m = NULL /\ sub0 = NULL /\ sub = NULL /\ frv = 0
    /\ kind = FMOB_NULL /\ obj = NULL /\ req = NULL /\ fill = 0
    /\ stype = FMOB_NULL /\ buf = << >> /\ srv = 0
    /\ dtype = FMOB_NULL /\ param = NULL /\ dst0 = NULL /\ dst = NULL /\ drv = 0 /\ rd = {}
    /\ opcode = 0 /\ fmob = [req |-> FMOB_NULL, rsp |-> FMOB_NULL]

\* rv = fmapi_serialize(buf, &o, type) on a buffer of cap bytes
SerializeCall(k, o, r, cap, type, f) ==
    /\ LET s == fmapi_serialize([i \in 0..(cap - 1) |-> f], 0, o, type)
       IN /\ buf' = s.dst
          /\ srv' = s.rv
    /\ kind' = k /\ obj' = o /\ req' = r /\ fill' = f /\ stype' = type
    /\ pc' = "serialized"
    /\ UNCHANGED << layout, job, heap, frame, hlen, call, m0, m, sub0, sub, frv, dtype, param, dst0, dst, drv, rd,
                    opcode, fmob >>

\* rv = fmapi_deserialize(&dst, buf, type, p) on the buffer as fmapi_serialize left it
DeserializeCall(type, d0, p) ==
    /\ pc = "serialized"
    /\ LET r == fmapi_deserialize(d0, buf, 0, type, p)
       IN /\ dst' = r.obj
          /\ drv' = r.rv
          /\ rd' = r.rd
    /\ dtype' = type /\ param' = p /\ dst0' = d0
    /\ pc' = "deserialized"
    /\ UNCHANGED << layout, job, heap, frame, hlen, call, m0, m, sub0, sub, frv, kind, obj, req, fill, stype, buf,
                    srv, opcode, fmob >>

\* fmapi_fmob_req(op) and fmapi_fmob_rsp(op)
LookupCall(op) ==
    /\ pc = "idle"
    /\ opcode' = op
    /\ fmob' = [req |-> fmapi_fmob_req(op), rsp |-> fmapi_fmob_rsp(op)]
    /\ pc' = "looked"
    /\ UNCHANGED << layout, job, heap, frame, hlen, call, m0, m, sub0, sub, frv, kind, obj, req, fill, stype, buf,
                    srv, dtype, param, dst0, dst, drv, rd >>

\* rv = fmapi_fill_*(m, ...)
Fill ==
    /\ pc = "idle"
    /\ \E d \in FillCalls :
          \E a \in {FillMsg(d)}, b \in {SubMsg(d)} :
             \E r \in {fmapi_fill(d, a, b)} :
                /\ call' = d
                /\ m0' = a /\ sub0' = b
                /\ m' = r.m /\ sub' = r.sub /\ frv' = r.rv
    /\ pc' = "filled"
    /\ UNCHANGED << layout, job, heap, frame, hlen, kind, obj, req, fill, stype, buf, srv, dtype, param, dst0, dst,
                    drv, rd, opcode, fmob >>

\* rv = fmapi_fill_hdr(fh, category, tag, opcode, background, len,
\* return_code, ext_status) on a header that holds what the seed says, or
\* with a null fh; the arguments are the choices of IntArg that a __u32
\* and the model's integers hold.
FillHdr ==
    /\ pc = "idle"
    /\ \E d \in {FillCall("fmapi_fill_hdr", null, s, v, 0, 0, 0, 0) :
                    null \in {0, 1}, s \in Seeds, v \in {0, 1, 2, 3, 5}} :
          \E h \in {IF d.null = 1 THEN NULL ELSE Obj(FMOB_HDR, d.s, 0)} :
             \E r \in {fmapi_fill_hdr(h, U8(IntArg(d.v, 1, 4)), U8(IntArg(d.v, 2, 8)),
                                      U16(IntArg(d.v, 3, 16)), U8(IntArg(d.v, 4, 1)),
                                      IntArg(d.v, 5, 21), U16(IntArg(d.v, 6, 16)),
                                      U16(IntArg(d.v, 7, 16)))} :
                /\ call' = d
                /\ m0' = h /\ m' = r.fh /\ frv' = r.rv
    /\ pc' = "hdr_filled"
    /\ UNCHANGED << layout, job, heap, frame, hlen, sub0, sub, kind, obj, req, fill, stype, buf, srv, dtype, param,
                    dst0, dst, drv, rd, opcode, fmob >>

\* The payload of a built message is encoded as the request kind of the
\* opcode in its header
SerializeBuilt ==
    /\ pc = "filled"
    /\ frv = 0
    /\ \E f \in Fills :
          SerializeCall(fmapi_fmob_req(m.hdr.opcode), m.obj, NULL, BufLen,
                        fmapi_fmob_req(m.hdr.opcode), f)

\* The objects a program encodes ...
SerializeHeader ==
    /\ pc = "idle"
    /\ \E h \in Headers, f \in Fills : SerializeCall(FMOB_HDR, h, NULL, BufLen, FMOB_HDR, f)

SerializePayload ==
    /\ pc = "idle"
    /\ \E d \in Inputs, f \in Fills :
          SerializeCall(d.kind, InputObj(d), InputReq(d), d.cap, d.kind, f)

\* ... and the calls it makes with a type that names no payload
SerializeOther ==
    /\ pc = "idle"
    /\ \E d \in {e \in Inputs : e.seed = 1 /\ e.n <= 1}, f \in Fills :
          \E type \in {FMOB_NULL} \cup InvalidTypes :
             SerializeCall(d.kind, InputObj(d), InputReq(d), d.cap, type, f)

\* The decode of an encoded object into a cleared or a used destination,
\* with the request it answers or with no context ...
DeserializePayload ==
    /\ pc = "serialized"
    /\ stype = kind
    /\ \E d0 \in {ZeroObj(kind), Stale(kind)}, p \in {NULL, req} :
          DeserializeCall(kind, d0, p)

\* ... and the calls with no destination or with a type that names no payload
DeserializeOther ==
    /\ pc = "serialized"
    /\ stype \in {kind, FMOB_NULL}
    /\ \E a \in {<<NULL, kind>>, <<NULL, FMOB_NULL>>, <<Stale(kind), FMOB_NULL>>,
                 <<Stale(kind), FMOB_MAX>>, <<ZeroObj(kind), 65535>>} :
          \E p \in {NULL, req} : DeserializeCall(a[2], a[1], p)

\* The encode of an object that holds more in a packed field than the
\* wire has bits for
SerializeWide ==
    /\ pc = "idle"
    /\ \E d \in WideInputs, f \in Fills :
          SerializeCall(d.kind, WideObj(d), NULL, BufLen, d.kind, f)

\* A message arrives whose header declares a payload of len bytes: the
\* payload area of the receive buffer holds the first len bytes a sender
\* encoded for an object (all of them, all but the last, or the part
\* before the list only, which holds the counts) and behind them what the
\* buffer held before.
Receive ==
    /\ pc = "idle"
    /\ \E d \in {e \in Inputs : e.seed = MaxSeed /\ e.n <= MaxCount}, f \in Fills :
          \E s \in {fmapi_serialize([i \in 0..(d.cap - 1) |-> f], 0, InputObj(d), d.kind)},
             head \in {fmapi_serialize([i \in 0..(d.cap - 1) |-> f], 0, ZeroObj(d.kind),
                                       d.kind).rv} :
             \E len \in {s.rv, head,
                          IF d.kind \in FixedKinds \/ s.rv - 1 > head
                          THEN s.rv - 1 ELSE head} :
                /\ hlen' = len
                /\ buf' = [i \in DOMAIN s.dst |-> IF i < len THEN s.dst[i] ELSE f]
                /\ srv' = s.rv
                /\ kind' = d.kind /\ obj' = InputObj(d) /\ req' = InputReq(d)
                /\ fill' = f /\ stype' = d.kind
    /\ pc' = "received"
    /\ UNCHANGED << layout, job, heap, frame, call, m0, m, sub0, sub, frv, dtype, param, dst0, dst, drv, rd, opcode,
                    fmob >>

\* rv = fmapi_deserialize(&dst, buf->payload, type, p) on the received payload;
\* the call has no argument that tells it the len of the header
DecodeReceived ==
    /\ pc = "received"
    /\ \E d0 \in {ZeroObj(kind), Stale(kind)} :
          LET r == fmapi_deserialize(d0, buf, 0, kind, req)
          IN /\ dst' = r.obj /\ drv' = r.rv /\ rd' = r.rd
             /\ dtype' = kind /\ param' = req /\ dst0' = d0
    /\ pc' = "decoded"
    /\ UNCHANGED << layout, job, heap, frame, hlen, call, m0, m, sub0, sub, frv, kind, obj, req, fill, stype, buf,
                    srv, opcode, fmob >>

Lookup ==
    /\ pc = "idle"
    /\ \E op \in Opcodes : LookupCall(op)

\* Two callers start a call each, on memory of their own.
StartCalls ==
    /\ pc = "idle"
    /\ \E l \in {"apart", "adjacent"}, j1 \in Jobs(1), j2 \in Jobs(2) :
          /\ layout' = l
          /\ job' = [t \in Callers |-> IF t = 1 THEN j1 ELSE j2]
          /\ heap' = [t \in Callers |-> JobHeap(IF t = 1 THEN j1 ELSE j2)]
    /\ frame' = [t \in Callers |-> [at |-> "call", i |-> 0, rv |-> 0, out |-> NULL]]
    /\ pc' = "calls"
    /\ UNCHANGED << hlen, call, m0, m, sub0, sub, frv, kind, obj, req, fill, stype, buf, srv,
                    dtype, param, dst0, dst, drv, rd, opcode, fmob >>

\* The statements of a call before its loop.
\*   fmapi_deserialize: o->num = src[0]; o->start = src[1];
\*                      rv = FMLN_MCC_SET_LD_ALLOC_REQ
\*   fmapi_serialize:   dst[0] = o->num; dst[1] = o->start;
\*                      rv = FMLN_MCC_SET_LD_ALLOC_REQ
\*   fmapi_fill_mcc_set_alloc: memset(&m->hdr, ...); m->hdr.opcode = ...;
\*                      m->obj.mcc_alloc_set_req.num = num; ....start = start
Enter(t) ==
    /\ pc = "calls"
    /\ frame[t].at = "call"
    /\ heap' = [heap EXCEPT ![t] =
          CASE job[t].fn = "fmapi_deserialize" ->
                  [@ EXCEPT !.o.num = heap[t].buf[0], !.o.start = heap[t].buf[1]]
            [] job[t].fn = "fmapi_serialize" ->
                  [@ EXCEPT !.buf = Put(@, 0, << U8(heap[t].o.num), U8(heap[t].o.start) >>)]
            [] OTHER ->
                  [@ EXCEPT !.hdr = [ZeroObj(FMOB_HDR) EXCEPT !.opcode = FMOP_MCC_ALLOC_SET],
                            !.o.num = U8(job[t].n), !.o.start = U8(job[t].s)]]
    /\ frame' = [frame EXCEPT ![t] =
          [at |-> "loop", i |-> 0,
           rv |-> IF job[t].fn = "fmapi_fill_mcc_set_alloc" THEN 1
                  ELSE FMLN_MCC_SET_LD_ALLOC_REQ,
           out |-> NULL]]
    /\ UNCHANGED << layout, job, pc, hlen, call, m0, m, sub0, sub, frv, kind, obj, req, fill,
                    stype, buf, srv, dtype, param, dst0, dst, drv, rd, opcode, fmob >>

\* One iteration of the loop of a call.
\*   fmapi_deserialize: for (i = 0; i < o->num; i++)
\*       rv += fmapi_deserialize(&o->list[i], &src[rv], FMOB_MCC_ALLOC_BLK, NULL)
\*   fmapi_serialize: for (i = 0; i < o->num; i++)
\*       rv += fmapi_serialize(&dst[rv], &o->list[i], FMOB_MCC_ALLOC_BLK)
\*   fmapi_fill_mcc_set_alloc: for (i = 0; i < num; i++)
\*       list[i].rng1 = rng1[i]; list[i].rng2 = rng2[i]
\* list[i] with i >= FM_MAX_NUM_LD lies behind the object: in the layout
\* "adjacent" list[FM_MAX_NUM_LD] of the first caller is the start of the
\* second caller's object, otherwise it is memory no caller uses.
Iterate(t) ==
    /\ pc = "calls"
    /\ frame[t].at = "loop"
    /\ frame[t].i < (IF job[t].fn = "fmapi_fill_mcc_set_alloc" THEN job[t].n
                     ELSE heap[t].o.num)
    /\ \E i \in {frame[t].i}, rv \in {frame[t].rv}, h \in {heap[t]} :
          CASE job[t].fn = "fmapi_deserialize" ->
                  \E r \in {fmapi_deserialize(Elem(h.o.list, i, ZeroObj(FMOB_MCC_ALLOC_BLK)),
                                              h.buf, rv, FMOB_MCC_ALLOC_BLK, NULL)} :
                     /\ heap' =
                           IF i < FM_MAX_NUM_LD
                           THEN [heap EXCEPT ![t].o.list =
                                    IF i + 1 <= Len(@) THEN [@ EXCEPT ![i + 1] = r.obj]
                                    ELSE Append(@, r.obj)]
                           ELSE IF layout = "adjacent" /\ t = 1 /\ i = FM_MAX_NUM_LD
                           THEN [heap EXCEPT ![2].o = Trample(@, r.obj)]
                           ELSE heap
                     /\ frame' = [frame EXCEPT ![t].i = i + 1, ![t].rv = rv + r.rv]
            [] job[t].fn = "fmapi_serialize" ->
                  \E r \in {fmapi_serialize(h.buf, rv,
                                            Elem(h.o.list, i, ZeroObj(FMOB_MCC_ALLOC_BLK)),
                                            FMOB_MCC_ALLOC_BLK)} :
                     /\ heap' = [heap EXCEPT ![t].buf = r.dst]
                     /\ frame' = [frame EXCEPT ![t].i = i + 1, ![t].rv = rv + r.rv]
            [] OTHER ->
                  /\ heap' = [heap EXCEPT ![t].o.list =
                                 IF i + 1 <= Len(@) THEN [@ EXCEPT ![i + 1] = JobRanges(job[t])[i + 1]]
                                 ELSE Append(@, JobRanges(job[t])[i + 1])]
                  /\ frame' = [frame EXCEPT ![t].i = i + 1]
    /\ UNCHANGED << layout, job, pc, hlen, call, m0, m, sub0, sub, frv, kind, obj, req, fill,
                    stype, buf, srv, dtype, param, dst0, dst, drv, rd, opcode, fmob >>

\* The loop of a call ends and the call returns rv (a constructor: rv = 0);
\* out is what the caller finds in its memory then.
Return(t) ==
    /\ pc = "calls"
    /\ frame[t].at = "loop"
    /\ frame[t].i >= (IF job[t].fn = "fmapi_fill_mcc_set_alloc" THEN job[t].n
                      ELSE heap[t].o.num)
    /\ frame' = [frame EXCEPT ![t].at = "returned",
                              ![t].rv = IF job[t].fn = "fmapi_fill_mcc_set_alloc" THEN 0 ELSE @,
                              ![t].out = heap[t]]
    /\ UNCHANGED << layout, job, heap, pc, hlen, call, m0, m, sub0, sub, frv, kind, obj, req,
                    fill, stype, buf, srv, dtype, param, dst0, dst, drv, rd, opcode, fmob >>

Next ==
    \/ Fill
    \/ FillHdr
    \/ SerializeBuilt
    \/ SerializeHeader
    \/ SerializePayload
    \/ SerializeOther
    \/ SerializeWide
    \/ DeserializePayload
    \/ DeserializeOther
    \/ Receive
    \/ DecodeReceived
    \/ Lookup
    \/ StartCalls
    \/ \E t \in Callers : Enter(t)
    \/ \E t \in Callers : Iterate(t)
    \/ \E t \in Callers : Return(t)

Spec == Init /\ [][Next]_vars

(* ------------------------------------------------------------------ *)
(* Properties                                                           *)
(* ------------------------------------------------------------------ *)

\* C1: a header with category 0..15, tag 0..255, opcode 0..65535, background
\* 0 or 1, len 0..0x1FFFFF and any return_code and ext_status that is
\* serialized as FMOB_HDR and then deserialized as FMOB_HDR comes back with
\* all seven fields equal, and both calls return 12.
C1_HeaderRoundTrip ==
    (pc = "deserialized" /\ stype = FMOB_HDR /\ dtype = FMOB_HDR /\ dst0 # NULL)
    => /\ srv = 12
       /\ drv = 12
       /\ dst.category = obj.category
       /\ dst.tag = obj.tag
       /\ dst.opcode = obj.opcode
       /\ dst.background = obj.background
       /\ dst.len = obj.len
       /\ dst.return_code = obj.return_code
       /\ dst.ext_status = obj.ext_status

\* A header with every bit of every field set came back from a buffer that
\* held 0xA5 everywhere, into a destination that held another header.
C1_Witness ==
    /\ pc = "deserialized" /\ stype = FMOB_HDR /\ dtype = FMOB_HDR
    /\ obj.category = 15 /\ obj.tag = 255 /\ obj.opcode = 65535 /\ obj.background = 1
    /\ obj.len = 2097151 /\ obj.return_code = 65535 /\ obj.ext_status = 65535
    /\ fill = 165 /\ dst0 = Stale(FMOB_HDR) /\ dst0 # obj
    /\ dst = obj /\ srv = 12 /\ drv = 12

\* The part of an object that carries meaning: its scalar fields and the
\* first `count` entries of its array (count being num or len); entries
\* beyond the count are storage the codec neither sends nor fills.
Meaningful(type, o) ==
    CASE type = FMOB_PSC_PORT_REQ -> [o EXCEPT !.ports = Prefix(o.ports, o.num)]
      [] type = FMOB_VSC_INFO_REQ -> [o EXCEPT !.vcss = Prefix(o.vcss, o.num)]
      [] type \in {FMOB_MPC_TMC_REQ, FMOB_MPC_TMC_RSP} ->
            [o EXCEPT !.msg = Prefix(o.msg, o.len)]
      [] type \in {FMOB_MPC_MEM_REQ, FMOB_MPC_MEM_RSP} ->
            [o EXCEPT !.data = Prefix(o.data, o.len)]
      [] type \in {FMOB_MCC_QOS_BW_ALLOC, FMOB_MCC_QOS_BW_LIMIT} ->
            [o EXCEPT !.list = Prefix(o.list, o.num)]
      [] type = FMOB_PSC_PORT_RSP ->
            [o EXCEPT !.list = [i \in 1..o.num |->
                                  Elem(o.list, i - 1, ZeroObj(FMOB_PSC_PORT_INFO))]]
      [] type \in {FMOB_MCC_ALLOC_GET_RSP, FMOB_MCC_ALLOC_SET_REQ, FMOB_MCC_ALLOC_SET_RSP} ->
            [o EXCEPT !.list = [i \in 1..o.num |->
                                  Elem(o.list, i - 1, ZeroObj(FMOB_MCC_ALLOC_BLK))]]
      [] type = FMOB_VSC_INFO_BLK ->
            [o EXCEPT !.list = [i \in 1..o.num |->
                                  Elem(o.list, i - 1, ZeroObj(FMOB_VSC_PPB_STAT_BLK))]]
      [] type = FMOB_VSC_INFO_RSP ->
            [o EXCEPT !.list =
                [i \in 1..o.num |->
                    LET b == Elem(o.list, i - 1, ZeroObj(FMOB_VSC_INFO_BLK))
                    IN [b EXCEPT !.list = [j \in 1..b.num |->
                                   Elem(b.list, j - 1, ZeroObj(FMOB_VSC_PPB_STAT_BLK))]]]]
      [] OTHER -> o

\* The count an object announces for its array (num, or len for the byte
\* arrays of the tunnel and memory commands); 0 for a kind without one.
Count(type, o) ==
    CASE type \in {FMOB_MPC_TMC_REQ, FMOB_MPC_TMC_RSP, FMOB_MPC_MEM_REQ, FMOB_MPC_MEM_RSP} ->
            o.len
      [] Capacity(type) > 0 -> o.num
      [] OTHER -> 0

\* Every packed field of the encoded object fits the bits the wire has for it.
FieldsFit == \A p \in PackedFields(kind) : obj[p.f] < Pow2(p.w + p.sh)

\* The call pair of a round trip: an object of a payload kind, whose fields
\* fit their wire widths, was encoded
\* and the bytes were decoded as the same kind into a destination object,
\* with the request the object answers as context.
RoundTrip ==
    /\ pc = "deserialized"
    /\ FieldsFit
    /\ kind \notin {FMOB_NULL, FMOB_HDR}
    /\ stype = kind /\ dtype = kind
    /\ dst0 # NULL
    /\ param = req
    /\ Count(kind, obj) <= Capacity(kind)

\* Every virtual switch block of the encoded object holds at least as many
\* vPPBs as the request's vppbid_start.
TotalsReachStart ==
    CASE kind = FMOB_VSC_INFO_BLK -> obj.total >= req.vppbid_start
      [] kind = FMOB_VSC_INFO_RSP ->
            \A i \in 1..obj.num : obj.list[i].total >= req.vppbid_start
      [] OTHER -> TRUE

\* C2: for every payload kind and every object of it whose fields fit their
\* wire widths and whose list count is within capacity, decoding the encoded
\* bytes (for FMOB_VSC_INFO_BLK and FMOB_VSC_INFO_RSP with the originating
\* request as context) gives back the object, and the decode consumes as
\* many bytes as the encode produced.
C2_PayloadRoundTrip ==
    RoundTrip => (drv = srv /\ Meaningful(kind, dst) = Meaningful(kind, obj))

\* The round trip of every object but the virtual switch blocks that hold
\* fewer vPPBs than the request skips.
RoundTripWhereTotalsReachStart ==
    (RoundTrip /\ TotalsReachStart)
    => (drv = srv /\ Meaningful(kind, dst) = Meaningful(kind, obj))

\* The decode of the bytes of a virtual switch block with its request as
\* context, where the block's total (wire byte 3) reaches vppbid_start.
InfoBlkDecode ==
    /\ pc = "deserialized"
    /\ stype = FMOB_VSC_INFO_BLK /\ dtype = FMOB_VSC_INFO_BLK
    /\ dst0 # NULL /\ param # NULL
    /\ buf[3] >= param.vppbid_start

\* C3: deserializing an FMOB_VSC_INFO_BLK with the request r as context, for
\* a block whose total is at least r.vppbid_start, sets num to
\* min(r.vppbid_limit, total - r.vppbid_start), decodes exactly num status
\* blocks and consumes 4 + 4 * num bytes; with vppbid_start 2 and
\* vppbid_limit 6 a total of 10 gives 6 entries and a total of 5 gives 3.
C3_InfoBlkCount ==
    InfoBlkDecode =>
        LET total == buf[3]
            num == Min(param.vppbid_limit, total - param.vppbid_start)
        IN /\ dst.total = total
           /\ dst.num = num
           /\ drv = 4 + 4 * num
           /\ Len(dst.list) >= num
           /\ \A i \in 1..num :
                 /\ dst.list[i] = [status |-> buf[4 * i], ppid |-> buf[4 * i + 1],
                                   ldid |-> buf[4 * i + 2]]
                 /\ {4 * i, 4 * i + 1, 4 * i + 2} \subseteq rd
           /\ \A i \in (num + 1)..Len(dst.list) :
                 i <= Len(dst0.list) /\ dst.list[i] = dst0.list[i]
           /\ rd \subseteq 0..(4 + 4 * num - 1)
           /\ (param.vppbid_start = 2 /\ param.vppbid_limit = 6 /\ total = 10) => dst.num = 6
           /\ (param.vppbid_start = 2 /\ param.vppbid_limit = 6 /\ total = 5) => dst.num = 3

\* A block of 10 vPPBs decoded for a request of 6 entries from vPPB 2 on.
C3_Witness ==
    /\ InfoBlkDecode
    /\ param.vppbid_start = 2 /\ param.vppbid_limit = 6 /\ buf[3] = 10
    /\ dst.num = 6 /\ drv = 28 /\ Len(dst.list) = 6
    /\ dst0 = Stale(FMOB_VSC_INFO_BLK)

\* An FMOB_MPC_TMC_REQ or FMOB_MPC_TMC_RSP object was encoded.  The 16-bit
\* length field is at wire offset 2 of a request and 0 of a response.
TmcEncoded ==
    /\ pc \in {"serialized", "deserialized"}
    /\ kind \in {FMOB_MPC_TMC_REQ, FMOB_MPC_TMC_RSP} /\ stype = kind

TmcLenField == IF kind = FMOB_MPC_TMC_REQ THEN buf[2] + 256 * buf[3]
               ELSE buf[0] + 256 * buf[1]

TmcDecoded == TmcEncoded /\ pc = "deserialized" /\ dtype = kind /\ dst0 # NULL

\* C4: for FMOB_MPC_TMC_REQ and FMOB_MPC_TMC_RSP the encoder writes the
\* little endian 16-bit length field as len + 1 (len 68 gives 69) and the
\* decoder sets len to the field minus 1; both return 5 + len and both copy
\* exactly len message bytes, which start at wire offset 5.
C4_TmcLength ==
    /\ TmcEncoded =>
          /\ TmcLenField = obj.len + 1
          /\ (obj.len = 68 => TmcLenField = 69)
          /\ srv = 5 + obj.len
          /\ \A i \in 1..obj.len : buf[5 + i - 1] = obj.msg[i]
          /\ \A j \in (5 + obj.len)..(BufLen - 1) : buf[j] = fill
    /\ TmcDecoded =>
          /\ dst.len = TmcLenField - 1
          /\ drv = 5 + dst.len
          /\ \A i \in 1..dst.len : dst.msg[i] = buf[5 + i - 1]
          /\ \A i \in (dst.len + 1)..Len(dst.msg) :
                i <= Len(dst0.msg) /\ dst.msg[i] = dst0.msg[i]
          /\ rd \cap (5..(BufLen - 1)) = Span(5, dst.len)

\* A tunnel request of 68 message bytes went out with 69 in its length
\* field and came back as 68 bytes.
C4_Witness ==
    /\ TmcDecoded /\ kind = FMOB_MPC_TMC_REQ
    /\ obj.len = 68 /\ buf[2] = 69 /\ buf[3] = 0 /\ srv = 73
    /\ dst.len = 68 /\ drv = 73 /\ dst.msg = obj.msg /\ fill = 165

\* C5: fmapi_fmob_req and fmapi_fmob_rsp give a result for every opcode; an
\* opcode that is none of the 25 defined ones maps to FMOB_NULL, and the
\* result is always a value of the enumeration, 0 .. FMOB_MAX - 1.
C5_FmobTotal ==
    /\ Cardinality(DefinedOpcodes) = 25
    /\ pc = "looked" =>
          /\ fmob.req \in 0..(FMOB_MAX - 1)
          /\ fmob.rsp \in 0..(FMOB_MAX - 1)
          /\ opcode \notin DefinedOpcodes =>
                (fmob.req = FMOB_NULL /\ fmob.rsp = FMOB_NULL)

\* The opcode 0xFFFF, which is none of the defined ones, was looked up.
C5_Witness ==
    /\ pc = "looked" /\ opcode = 65535 /\ opcode \notin DefinedOpcodes
    /\ fmob = [req |-> FMOB_NULL, rsp |-> FMOB_NULL]

C7_NullDestination ==
    /\ pc = "deserialized" /\ dst0 = NULL /\ dtype = kind /\ dtype = FMOB_VSC_BIND_REQ
    /\ drv = -1 /\ rd = {} /\ dst = NULL

\* C8: fmapi_serialize called with a type of FMOB_MAX or more reports an
\* invalid argument: its result is not the 0 it returns for FMOB_NULL.
C8_SerializeInvalidDistinct ==
    (pc \in {"serialized", "deserialized"} /\ stype >= FMOB_MAX) => srv # 0

\* What fmapi_serialize does with a type of FMOB_MAX or more: it returns 0
\* and leaves the buffer as it was, as it does for FMOB_NULL.
SerializeInvalidIsZero ==
    (pc \in {"serialized", "deserialized"} /\ stype >= FMOB_MAX) =>
        (srv = 0 /\ \A i \in DOMAIN buf : buf[i] = fill)

\* C9: fmapi_deserialize of an FMOB_VSC_INFO_BLK with a null context returns
\* 0 and leaves every field of the destination block, num and list
\* included, as it was.
C9_InfoBlkNullContext ==
    (pc = "deserialized" /\ dtype = FMOB_VSC_INFO_BLK /\ dst0 # NULL /\ param = NULL)
    => (drv = 0 /\ dst = dst0 /\ rd = {})

\* The bytes of a block of 10 vPPBs were offered without a request to a
\* destination that held an earlier block.
C9_Witness ==
    /\ pc = "deserialized" /\ dtype = FMOB_VSC_INFO_BLK /\ stype = FMOB_VSC_INFO_BLK
    /\ param = NULL /\ buf[3] = 10 /\ srv > 4
    /\ dst0 = Stale(FMOB_VSC_INFO_BLK) /\ dst0.num = MaxCount
    /\ dst = dst0 /\ drv = 0

\* C10: fmapi_deserialize of an FMOB_VSC_INFO_RSP whose wire count is 1 or
\* more, with a null context, fails with an error result; it does not
\* return a positive byte count with num decoded and the blocks undecoded.
C10_InfoRspNullContextFails ==
    (pc = "deserialized" /\ dtype = FMOB_VSC_INFO_RSP /\ stype = FMOB_VSC_INFO_RSP
     /\ dst0 # NULL /\ param = NULL /\ buf[0] >= 1)
    => (drv <= 0 /\ ~(drv > 0 /\ dst.num = buf[0] /\ dst.list = dst0.list))

\* What the decode of a response without a context does: it returns the 4
\* bytes of the response's head, sets num and leaves every block as it was.
InfoRspNullContextIsPartial ==
    (pc = "deserialized" /\ dtype = FMOB_VSC_INFO_RSP /\ stype = FMOB_VSC_INFO_RSP
     /\ dst0 = ZeroObj(FMOB_VSC_INFO_RSP) /\ param = NULL)
    => (drv = FMLN_VSC_GET_INFO_RESP /\ dst.num = buf[0]
        /\ Len(dst.list) = dst.num
        /\ \A i \in 1..dst.num : dst.list[i] = ZeroObj(FMOB_VSC_INFO_BLK))

\* C11: there is no partial success.  Whenever fmapi_serialize or
\* fmapi_deserialize reports failure (a result of 0 or less for a type other
\* than FMOB_NULL), the destination buffer or object is what it was before
\* the call.
C11_NoPartialSuccess ==
    /\ (pc \in {"serialized", "deserialized"} /\ stype # FMOB_NULL /\ srv <= 0) =>
          \A i \in DOMAIN buf : buf[i] = fill
    /\ (pc = "deserialized" /\ dtype # FMOB_NULL /\ drv <= 0) => dst = dst0

\* A decode of the bytes of a block of 5 vPPBs failed for want of a request,
\* and the destination, which held an earlier block, is as it was.
C11_Witness ==
    /\ pc = "deserialized" /\ dtype = FMOB_VSC_INFO_BLK /\ stype = FMOB_VSC_INFO_BLK
    /\ buf[3] = 5 /\ param = NULL /\ drv <= 0
    /\ dst0 = Stale(FMOB_VSC_INFO_BLK) /\ dst0.total # buf[3] /\ dst = dst0

\* A failed encode: the type was FMOB_MAX and the buffer still holds 0xA5.
C11_SerializeFailed ==
    /\ pc = "serialized" /\ stype = FMOB_MAX /\ srv <= 0 /\ fill = 165
    /\ \A i \in DOMAIN buf : buf[i] = 165

\* The bytes fmapi_serialize produces for the encoded object in a buffer
\* that held 0 everywhere.
EncodedInZeroedBuffer ==
    fmapi_serialize([i \in 0..(BufLen - 1) |-> 0], 0, obj, stype).dst

\* C12: for every kind and every object, after fmapi_serialize every
\* reserved byte inside the returned length (header byte 2, bind request
\* byte 3, port information bytes 3 and 14, switch identity bytes 1 and
\* 73..92, ...) is 0 whatever the buffer held before the call, so that the
\* encoded bytes are a function of the object alone.
C12_ReservedBytesZero ==
    (pc \in {"serialized", "deserialized"} /\ stype = kind) =>
        /\ \A i \in 0..(srv - 1) : buf[i] = EncodedInZeroedBuffer[i]
        /\ kind = FMOB_HDR => buf[2] = 0
        /\ kind = FMOB_VSC_BIND_REQ => buf[3] = 0
        /\ kind = FMOB_PSC_PORT_INFO => (buf[3] = 0 /\ buf[14] = 0)
        /\ kind = FMOB_PSC_ID_RSP => (buf[1] = 0 /\ \A i \in 73..92 : buf[i] = 0)

\* C13: for every kind that packs several fields into one wire byte,
\* fmapi_serialize masks and shifts each field so that, whatever the values
\* of its siblings in the byte (values wider than their wire bits included),
\* the wire bits of the field are the low bits of its own value and the
\* decode gives those bits back.
C13_PackedFieldsIndependent ==
    (pc \in {"serialized", "deserialized"} /\ stype = kind) =>
        \A p \in PackedFields(kind) :
            /\ And(Shr(buf[p.byte], p.bit), Pow2(p.w) - 1) = Shr(obj[p.f], p.sh) % Pow2(p.w)
            /\ (pc = "deserialized" /\ dtype = kind /\ dst0 # NULL) =>
                  Shr(dst[p.f], p.sh) = Shr(obj[p.f], p.sh) % Pow2(p.w)

\* The same for the kinds whose encoder masks every packed field.
PackedFieldsIndependentWhereMasked ==
    (pc \in {"serialized", "deserialized"} /\ stype = kind /\ kind # FMOB_MCC_QOS_CTRL) =>
        \A p \in PackedFields(kind) :
            /\ And(Shr(buf[p.byte], p.bit), Pow2(p.w) - 1) = Shr(obj[p.f], p.sh) % Pow2(p.w)
            /\ (pc = "deserialized" /\ dtype = kind /\ dst0 # NULL) =>
                  Shr(dst[p.f], p.sh) = Shr(obj[p.f], p.sh) % Pow2(p.w)

\* A constructor was called: the states from its return on.
Built == pc \in {"filled", "serialized", "deserialized"} /\ call.fn # "none"

\* C14: every fmapi_fill_* constructor returns non-zero when m is a null
\* pointer and 0 when it is not; a null m is the only reason a constructor
\* reports failure, whatever the arguments and the message hold.
C14_FillResult ==
    Built => /\ m0 = NULL => frv # 0
             /\ m0 # NULL => frv = 0

\* The tunnel constructor was called with a null m and a valid inner message.
C14_Witness ==
    /\ pc = "filled" /\ call.fn = "fmapi_fill_mpc_tmc"
    /\ m0 = NULL /\ sub0 # NULL /\ frv = 1

\* A constructor was called with arguments wider than the fields and succeeded.
C14_WideArguments ==
    /\ pc = "filled" /\ call.fn = "fmapi_fill_vsc_bind" /\ call.v = 3
    /\ m0 # NULL /\ frv = 0


\* C15: after a constructor returns 0 the header of the message holds the
\* FMOP_* opcode of the constructor's command and 0 in every other field
\* (category, tag, background, len, return_code, ext_status), whatever the
\* header held before the call.
C15_FillHeader ==
    (Built /\ frv = 0) =>
        m.hdr = [ZeroObj(FMOB_HDR) EXCEPT !.opcode = Command(call.fn).opcode]

\* A constructor was called on a message whose header had every field set.
C15_Witness ==
    /\ pc = "filled" /\ call.fn = "fmapi_fill_isc_bos" /\ frv = 0
    /\ m0.hdr = Obj(FMOB_HDR, 1, 0)
    /\ m.hdr.opcode = FMOP_ISC_BOS /\ m.hdr.len = 0 /\ m.hdr.category = 0

\* The tunnel constructor was called on a message with a used header.
C15_TunnelHeader ==
    /\ pc = "filled" /\ call.fn = "fmapi_fill_mpc_tmc" /\ frv = 0
    /\ m0.hdr = Obj(FMOB_HDR, 2, 0) /\ m0.hdr.len # 0
    /\ m.hdr.opcode = FMOP_MPC_TMC


\* The int arguments of each constructor in the order of the parameter
\* list, as the field of the payload each is stored in and the width of
\* that field ("-" for an argument stored in an array).
ArgFields(fn) ==
    CASE fn = "fmapi_fill_isc_set_msg_limit" -> << <<"limit", 8>> >>
      [] fn = "fmapi_fill_mcc_get_alloc" -> << <<"start", 8>>, <<"limit", 8>> >>
      [] fn \in {"fmapi_fill_mcc_get_qos_alloc", "fmapi_fill_mcc_get_qos_limit"} ->
            << <<"start", 8>>, <<"num", 8>> >>
      [] fn \in {"fmapi_fill_mcc_set_alloc", "fmapi_fill_mcc_set_qos_alloc",
                 "fmapi_fill_mcc_set_qos_limit"} -> << <<"start", 8>> >>
      [] fn = "fmapi_fill_mcc_set_qos_ctrl" ->
            << <<"epc_en", 8>>, <<"ttr_en", 8>>, <<"egress_mod_pcnt", 8>>,
               <<"egress_sev_pcnt", 8>>, <<"sample_interval", 8>>, <<"rcb", 16>>,
               <<"comp_interval", 8>> >>
      [] fn = "fmapi_fill_mpc_cfg" ->
            << <<"ppid", 8>>, <<"ldid", 16>>, <<"reg", 8>>, <<"ext", 4>>, <<"fdbe", 4>>,
               <<"type", 1>> >>
      [] fn = "fmapi_fill_mpc_mem" ->
            << <<"ppid", 8>>, <<"ldid", 16>>, <<"fdbe", 4>>, <<"ldbe", 4>>, <<"type", 1>> >>
      [] fn = "fmapi_fill_mpc_tmc" -> << <<"ppid", 8>>, <<"type", 8>> >>
      [] fn = "fmapi_fill_psc_cfg" ->
            << <<"ppid", 8>>, <<"reg", 8>>, <<"ext", 4>>, <<"fdbe", 4>>, <<"type", 1>> >>
      [] fn = "fmapi_fill_psc_port_ctrl" -> << <<"ppid", 8>>, <<"opcode", 8>> >>
      [] fn = "fmapi_fill_psc_get_port" -> << <<"-", 8>> >>
      [] fn = "fmapi_fill_vsc_aer" -> << <<"vcsid", 8>>, <<"vppbid", 8>> >>
      [] fn = "fmapi_fill_vsc_bind" ->
            << <<"vcsid", 8>>, <<"vppbid", 8>>, <<"ppid", 8>>, <<"ldid", 16>> >>
      [] fn = "fmapi_fill_vsc_get_vcs" ->
            << <<"-", 8>>, <<"vppbid_start", 8>>, <<"vppbid_limit", 8>> >>
      [] fn = "fmapi_fill_vsc_unbind" -> << <<"vcsid", 8>>, <<"vppbid", 8>>, <<"option", 4>> >>
      [] OTHER -> << >>

\* The three constructors with a start and a limit: the payload field the
\* limit is stored in and the value stored for a limit of 0.
LimitDefault(fn) ==
    CASE fn = "fmapi_fill_mcc_get_alloc" -> [f |-> "limit", v |-> 255]
      [] fn = "fmapi_fill_mcc_get_qos_alloc" -> [f |-> "num", v |-> 255]
      [] fn = "fmapi_fill_mcc_get_qos_limit" -> [f |-> "num", v |-> 16]
      [] OTHER -> [f |-> "none", v |-> 0]

\* The k-th int argument of the call made is stored in its field, cut to
\* the width of the field.
ArgStored(k) ==
    LET p == ArgFields(call.fn)[k]
        x == IntArg(call.v, k, p[2]) % Pow2(p[2])
    IN CASE p[1] # "-" -> m.obj[p[1]] = x
         [] call.fn = "fmapi_fill_psc_get_port" -> m.obj.num = 1 /\ m.obj.ports[1] = x
         [] call.fn = "fmapi_fill_vsc_get_vcs" -> m.obj.num = 1 /\ m.obj.vcss[1] = x

\* C16: after a constructor returns 0 every int argument is in its payload
\* field unchanged but for the cut to the width of the field, for every
\* value of the argument, a start or a limit of 0 given to
\* fmapi_fill_mcc_get_alloc, fmapi_fill_mcc_get_qos_alloc and
\* fmapi_fill_mcc_get_qos_limit included.
C16_ArgumentsPassThrough ==
    (Built /\ frv = 0) => \A k \in 1..Len(ArgFields(call.fn)) : ArgStored(k)

\* What the constructors do instead: every int argument is in its payload field
\* unchanged but for the cut to the width of the field, except that a limit
\* of 0 is stored as 255 by fmapi_fill_mcc_get_alloc and
\* fmapi_fill_mcc_get_qos_alloc and as 16 by fmapi_fill_mcc_get_qos_limit; a
\* start of 0 is stored as 0.
ArgumentsPassThroughButLimitZero ==
    (Built /\ frv = 0) =>
        \A k \in 1..Len(ArgFields(call.fn)) :
            IF ArgFields(call.fn)[k][1] = LimitDefault(call.fn).f
               /\ IntArg(call.v, k, 8) = 0
            THEN m.obj[LimitDefault(call.fn).f] = LimitDefault(call.fn).v
            ELSE ArgStored(k)

\* Get QoS Limit was built with a start and a limit of 0.
C16_Witness ==
    /\ pc = "filled" /\ call.fn = "fmapi_fill_mcc_get_qos_limit" /\ frv = 0
    /\ IntArg(call.v, 1, 8) = 0 /\ IntArg(call.v, 2, 8) = 0
    /\ m0.obj.num # 16
    /\ m.obj.start = 0 /\ m.obj.num = 16

\* A constructor was given arguments of more bits than the fields hold.
C16_WideArguments ==
    /\ pc = "filled" /\ call.fn = "fmapi_fill_mpc_cfg" /\ call.v = 3 /\ frv = 0
    /\ IntArg(3, 2, 16) > 65535 /\ m.obj.ldid = IntArg(3, 2, 16) - 65536


\* The payload of a message built by the constructor fn was encoded as the
\* request kind of the opcode in its header.
BuiltEncoded(fn) ==
    /\ pc \in {"serialized", "deserialized"}
    /\ call.fn = fn /\ frv = 0
    /\ kind = fmapi_fmob_req(m.hdr.opcode) /\ stype = kind /\ obj = m.obj

\* C17: for every vcsid, vppbid and ppid in 0..255 and every ldid in
\* 0..65535 (0x42, 0x0A, 0x0B and 0x0C0D among them), the payload of the
\* message fmapi_fill_vsc_bind builds, encoded as fmapi_fmob_req(hdr.opcode),
\* takes exactly 6 bytes, and decoding those bytes as the same kind reads
\* exactly 6 bytes and gives the four arguments back.
C17_BindRoundTrip ==
    (/\ BuiltEncoded("fmapi_fill_vsc_bind")
     /\ \A k \in 1..3 : IntArg(call.v, k, 8) \in 0..255
     /\ IntArg(call.v, 4, 16) \in 0..65535) =>
        /\ kind = FMOB_VSC_BIND_REQ
        /\ srv = 6
        /\ (pc = "deserialized" /\ dtype = kind /\ dst0 # NULL) =>
              /\ drv = 6
              /\ dst.vcsid = IntArg(call.v, 1, 8) /\ dst.vppbid = IntArg(call.v, 2, 8)
              /\ dst.ppid = IntArg(call.v, 3, 8) /\ dst.ldid = IntArg(call.v, 4, 16)

\* The bind command of 0x42, 0x0A, 0x0B and 0x0C0D was built on a used
\* message, encoded into a used buffer and decoded into a used object.
C17_Witness ==
    /\ BuiltEncoded("fmapi_fill_vsc_bind") /\ pc = "deserialized"
    /\ m0.obj # ZeroObj(FMOB_VSC_BIND_REQ) /\ fill = 165
    /\ dtype = FMOB_VSC_BIND_REQ /\ dst0 = Stale(FMOB_VSC_BIND_REQ)
    /\ srv = 6 /\ drv = 6
    /\ dst.vcsid = 66 /\ dst.vppbid = 10 /\ dst.ppid = 11 /\ dst.ldid = 3085


\* The msg array of a tunnel command as a byte buffer.
TunnelBytes(o) == [i \in 0..(Len(o.msg) - 1) |-> o.msg[i + 1]]

\* The header the first FMLN_HDR bytes of the built tunnel's msg decode to.
InnerHeader == deserialize_FMOB_HDR(ZeroObj(FMOB_HDR), TunnelBytes(m.obj), 0).obj

\* The encode of the inner payload, as the request kind of the inner
\* opcode, at offset FMLN_HDR of the msg array as it was before the call.
InnerEncoded ==
    fmapi_serialize(TunnelBytes(m0.obj), FMLN_HDR, sub0.obj, fmapi_fmob_req(sub0.hdr.opcode))

\* C18: after fmapi_fill_mpc_tmc(m, ppid, type, sub) returns 0 the first 12
\* bytes of the outer msg decode as a header whose opcode is the opcode sub
\* had, whose category is request and whose len is the number of bytes the
\* inner payload encoded to (0 for an inner Get LD Info request); the
\* encoded inner payload follows at msg offset 12.
C18_TunnelInnerMessage ==
    (Built /\ call.fn = "fmapi_fill_mpc_tmc" /\ frv = 0) =>
        /\ InnerHeader.opcode = sub0.hdr.opcode
        /\ InnerHeader.category = FMMT_REQ
        /\ InnerHeader.len = InnerEncoded.rv
        /\ sub0.hdr.opcode = FMOP_MCC_INFO => InnerHeader.len = 0
        /\ \A i \in Span(FMLN_HDR, InnerEncoded.rv) :
              TunnelBytes(m.obj)[i] = InnerEncoded.dst[i]

\* A bind command whose header the caller had filled in as a response with
\* another length was wrapped into a used message.
C18_Witness ==
    /\ pc = "filled" /\ call.fn = "fmapi_fill_mpc_tmc" /\ frv = 0
    /\ sub0.hdr.opcode = FMOP_VSC_BIND
    /\ sub0.hdr.category # FMMT_REQ /\ sub0.hdr.len # 6
    /\ m0.obj.msg # ZeroBytes(TunnelLen)
    /\ InnerHeader.opcode = FMOP_VSC_BIND /\ InnerHeader.len = 6
    /\ m.obj.msg[FMLN_HDR + 1] = 66 /\ m.obj.msg[FMLN_HDR + 5] = 13

\* A Get LD Info request, which has no payload, was wrapped.
C18_GetLdInfo ==
    /\ pc = "filled" /\ call.fn = "fmapi_fill_mpc_tmc" /\ frv = 0
    /\ sub0.hdr.opcode = FMOP_MCC_INFO
    /\ InnerHeader.opcode = FMOP_MCC_INFO /\ InnerHeader.len = 0


\* C19: after a constructor returns 0 the len of the header equals the
\* number of bytes fmapi_serialize produces for the payload, encoded as
\* fmapi_fmob_req(hdr.opcode); the built bind command has a header len of 6.
C19_FillHeaderLen ==
    (call.fn # "none" /\ BuiltEncoded(call.fn)) =>
        /\ m.hdr.len = srv
        /\ call.fn = "fmapi_fill_vsc_bind" => m.hdr.len = 6

\* What the constructors do instead: the len of the header is 0 after every
\* constructor, which is the encoded length only of the commands without a
\* payload.
FillHeaderLenIsZero ==
    (call.fn # "none" /\ BuiltEncoded(call.fn)) =>
        /\ m.hdr.len = 0
        /\ srv = 0 <=> kind = FMOB_NULL


\* C20: when the payload of a message whose header declares len = L is
\* decoded with fmapi_deserialize, no source byte at a payload offset of L
\* or more is read or used, for every kind and every content, a count or
\* length field that announces more than L bytes hold included.
C20_DecodeWithinHeaderLen ==
    pc = "decoded" => \A i \in rd : i < hlen

\* What the decoder does instead: it reads the fixed part of the kind and as
\* many entries as the counts in the bytes announce, so it stays within the
\* payload only where the sender encoded a whole object and the header
\* declares all of its bytes.
DecodeWithinEncodedLen ==
    (pc = "decoded" /\ hlen = srv /\ TotalsReachStart) =>
        (drv = srv /\ \A i \in rd : i < hlen)

\* A port request announcing three ports arrived in a message of one
\* payload byte, and the decode copied what lay behind that byte.
C20_CountBeyondLen ==
    /\ pc = "decoded" /\ kind = FMOB_PSC_PORT_REQ
    /\ hlen = 1 /\ buf[0] = 3 /\ fill = 165
    /\ drv = 4 /\ 3 \in rd
    /\ dst.num = 3 /\ dst.ports[3] = 165


\* The kinds whose list array has fewer entries than the count byte can
\* announce.
BoundedLists ==
    {FMOB_VSC_INFO_RSP, FMOB_MCC_ALLOC_GET_RSP, FMOB_MCC_ALLOC_SET_REQ,
     FMOB_MCC_ALLOC_SET_RSP, FMOB_MCC_QOS_BW_ALLOC, FMOB_MCC_QOS_BW_LIMIT}

\* C21: a list kind at its maximum count (16 allocation blocks, 16 QoS
\* bytes, 7 virtual switch blocks) round-trips, and with a count one beyond
\* the capacity of the array fmapi_serialize and fmapi_deserialize return an
\* error result and no list entry past the capacity is written.
C21_CapacityEnforced ==
    /\ (RoundTrip /\ TotalsReachStart /\ kind \in BoundedLists
          /\ Count(kind, obj) = Capacity(kind))
       => (drv = srv /\ Meaningful(kind, dst) = Meaningful(kind, obj))
    /\ (pc \in {"serialized", "deserialized"} /\ stype = kind /\ kind \in BoundedLists
          /\ Count(kind, obj) > Capacity(kind))
       => srv <= 0
    /\ (pc = "deserialized" /\ stype = kind /\ dtype = kind /\ kind \in BoundedLists
          /\ dst0 # NULL /\ buf[IF kind = FMOB_MCC_ALLOC_GET_RSP THEN 3 ELSE 0] > Capacity(kind))
       => (drv <= 0 /\ Len(dst.list) <= Capacity(kind))

\* A list kind at its maximum count round-trips.
MaxCountRoundTrips ==
    (RoundTrip /\ TotalsReachStart /\ kind \in BoundedLists
       /\ Count(kind, obj) = Capacity(kind))
    => (drv = srv /\ Meaningful(kind, dst) = Meaningful(kind, obj))

\* Seventeen allocation blocks are encoded and decoded like any other count:
\* both calls return 4 + 16 * 17 and the decode stores a seventeenth entry.
C21_SeventeenBlocks ==
    /\ pc = "deserialized" /\ kind = FMOB_MCC_ALLOC_GET_RSP /\ stype = kind /\ dtype = kind
    /\ dst0 = ZeroObj(kind)
    /\ obj.num = FM_MAX_NUM_LD + 1
    /\ srv = 276 /\ drv = 276
    /\ dst.num = FM_MAX_NUM_LD + 1 /\ Len(dst.list) = FM_MAX_NUM_LD + 1

\* Eight virtual switch blocks are decoded into an array of seven.
C21_EightBlocks ==
    /\ pc = "deserialized" /\ kind = FMOB_VSC_INFO_RSP /\ stype = kind /\ dtype = kind
    /\ dst0 = ZeroObj(kind) /\ param = req
    /\ obj.num = FM_MAX_VCS_PER_RSP + 1
    /\ drv = srv /\ srv > 0
    /\ Len(dst.list) = FM_MAX_VCS_PER_RSP + 1

\* The arguments of the fmapi_fill_hdr call made, as the function receives
\* them in its parameters.
HdrArgs ==
    [category |-> U8(IntArg(call.v, 1, 4)), tag |-> U8(IntArg(call.v, 2, 8)),
     opcode |-> U16(IntArg(call.v, 3, 16)), background |-> U8(IntArg(call.v, 4, 1)),
     len |-> IntArg(call.v, 5, 21), return_code |-> U16(IntArg(call.v, 6, 16)),
     ext_status |-> U16(IntArg(call.v, 7, 16))]

\* C22: fmapi_fill_hdr stores its seven arguments in the header and returns
\* 12 plus the len it stored, for every value of the len argument; with a
\* null header pointer it returns 0 and writes nothing.
C22_FillHdrLength ==
    pc = "hdr_filled" =>
       IF m0 = NULL THEN frv = 0 /\ m = NULL
       ELSE /\ m = HdrArgs
            /\ frv = FMLN_HDR + m.len

\* The return value is 12 plus the len argument, and the header holds each
\* argument cut to the bits of its field; the two agree where the len
\* argument fits 21 bits.
FillHdrLengthWithin21Bits ==
    pc = "hdr_filled" =>
       IF m0 = NULL THEN frv = 0 /\ m = NULL
       ELSE /\ frv = FMLN_HDR + HdrArgs.len
            /\ m = [HdrArgs EXCEPT !.category = @ % 16, !.background = @ % 2,
                                   !.len = @ % 2097152]
            /\ HdrArgs.len < 2097152 => frv = FMLN_HDR + m.len

\* A len argument of more than 21 bits: the header holds its low 21 bits
\* and the return value counts all of it.
C22_WideLen ==
    /\ pc = "hdr_filled" /\ m0 # NULL
    /\ HdrArgs.len >= 2097152
    /\ m.len = HdrArgs.len - 2097152
    /\ frv = FMLN_HDR + HdrArgs.len

\* A null header pointer.
C22_NullHeader == pc = "hdr_filled" /\ m0 = NULL /\ frv = 0 /\ m = NULL

\* The part of an object that lies in the object: its fields and the
\* FM_MAX_NUM_LD entries of its array.
InArray(o) == [o EXCEPT !.list = SubSeq(@, 1, Min(Len(@), FM_MAX_NUM_LD))]

\* The call of caller t has returned what it returns, and has left what it
\* leaves, when it runs alone.
AsAlone(t) ==
    \E a \in {Alone(job[t])} :
       /\ frame[t].rv = a.rv
       /\ frame[t].out.buf = a.buf
       /\ frame[t].out.hdr = a.hdr
       /\ InArray(frame[t].out.o) = InArray(a.o)

\* C23: in any interleaving of fmapi_serialize, fmapi_deserialize and
\* fmapi_fill_* calls of concurrent callers on disjoint buffers and objects
\* each call returns and leaves what it does when it runs alone.
C23_Isolation ==
    pc = "calls" => \A t \in Callers : frame[t].at = "returned" => AsAlone(t)

\* The calls are isolated unless one of them stores a list entry behind
\* its object and another caller's object lies there.
IsolationUnlessOverrun ==
    (pc = "calls" /\ (layout = "apart" \/ job[1].n <= FM_MAX_NUM_LD))
    => \A t \in Callers : frame[t].at = "returned" => AsAlone(t)

\* The first caller decodes a payload of FM_MAX_NUM_LD + 1 blocks while
\* the second encodes its object of 2 blocks: the second call returns
\* something else than it returns alone.
C23_Trampled ==
    /\ pc = "calls" /\ layout = "adjacent"
    /\ job[1] = Job("fmapi_deserialize", FM_MAX_NUM_LD + 1, 1)
    /\ job[2] = Job("fmapi_serialize", 2, 2)
    /\ frame[1].at = "returned" /\ frame[2].at = "returned"
    /\ AsAlone(1)
    /\ frame[2].rv # Alone(job[2]).rv

\* Two calls within the capacity of their arrays ran interleaved.
C23_Interleaved ==
    /\ pc = "calls" /\ layout = "adjacent"
    /\ job[1] = Job("fmapi_deserialize", 2, 1)
    /\ job[2] = Job("fmapi_fill_mcc_set_alloc", 2, 2)
    /\ frame[1].at = "loop" /\ frame[1].i = 1
    /\ frame[2].at = "returned" /\ AsAlone(2)

\* The kinds that carry the count of their list in a byte of their own, the
\* offset of that byte, the kind of the entries and the length of the part
\* before the list.
SelfCounted ==
    {FMOB_PSC_PORT_RSP, FMOB_MCC_ALLOC_GET_RSP, FMOB_MCC_ALLOC_SET_REQ,
     FMOB_MCC_ALLOC_SET_RSP, FMOB_VSC_INFO_RSP}

CountByte(type) == IF type = FMOB_MCC_ALLOC_GET_RSP THEN 3 ELSE 0

EntryKind(type) ==
    CASE type = FMOB_PSC_PORT_RSP -> FMOB_PSC_PORT_INFO
      [] type = FMOB_VSC_INFO_RSP -> FMOB_VSC_INFO_BLK
      [] OTHER -> FMOB_MCC_ALLOC_BLK

FixedLen(type) ==
    CASE type = FMOB_PSC_PORT_RSP -> FMLN_PSC_GET_PHY_PORT_RESP
      [] type = FMOB_VSC_INFO_RSP -> FMLN_VSC_GET_INFO_RESP
      [] type = FMOB_MCC_ALLOC_GET_RSP -> FMLN_MCC_GET_LD_ALLOC_RSP
      [] type = FMOB_MCC_ALLOC_SET_REQ -> FMLN_MCC_SET_LD_ALLOC_REQ
      [] OTHER -> FMLN_MCC_SET_LD_ALLOC_RSP

\* The offset behind the entries i, i + 1, ... of the encoded object where
\* each lies in the buffer as its own encoding, the first of them at off;
\* -1 where one does not.
RECURSIVE EntriesEncoded(_, _)
EntriesEncoded(i, off) ==
    IF i > obj.num THEN off
    ELSE LET e == fmapi_serialize([k \in DOMAIN buf |-> fill], 0, obj.list[i],
                                  EntryKind(kind))
         IN IF \A k \in 0..(e.rv - 1) : buf[off + k] = e.dst[k]
            THEN EntriesEncoded(i + 1, off + e.rv) ELSE 0 - 1

\* The offset behind the entries i, i + 1, ... of the decoded object where
\* each is the decode of the bytes that follow its predecessor's, the
\* first of them at off; -1 where one is not.
RECURSIVE EntriesDecoded(_, _)
EntriesDecoded(i, off) ==
    IF i > dst.num THEN off
    ELSE LET r == fmapi_deserialize(Elem(dst0.list, i - 1, ZeroObj(EntryKind(kind))),
                                    buf, off, EntryKind(kind), param)
         IN IF dst.list[i] = r.obj THEN EntriesDecoded(i + 1, off + r.rv) ELSE 0 - 1

\* C24: for every self-counted list kind and every count N within capacity
\* fmapi_serialize writes N in the count byte followed by the N entries,
\* and fmapi_deserialize reads N from the count byte, decodes exactly N
\* entries lying back to back behind the fixed part and returns the fixed
\* length plus the lengths the N entry decodes returned (4 + 16 * N for the
\* port and the allocation lists).
C24_SelfCountedList ==
    /\ (pc \in {"serialized", "deserialized"} /\ stype = kind /\ kind \in SelfCounted
          /\ obj.num <= Capacity(kind))
       => /\ buf[CountByte(kind)] = obj.num
          /\ srv = EntriesEncoded(1, FixedLen(kind))
          /\ kind # FMOB_VSC_INFO_RSP => srv = 4 + 16 * obj.num
    /\ (pc \in {"deserialized", "decoded"} /\ stype = kind /\ dtype = kind
          /\ kind \in SelfCounted /\ dst0 # NULL /\ buf[CountByte(kind)] <= Capacity(kind))
       => /\ dst.num = buf[CountByte(kind)]
          /\ drv = EntriesDecoded(1, FixedLen(kind))
          /\ kind # FMOB_VSC_INFO_RSP => drv = 4 + 16 * dst.num
          /\ Len(dst.list) = IF Len(dst0.list) > dst.num THEN Len(dst0.list) ELSE dst.num
          /\ \A i \in (dst.num + 1)..Len(dst.list) : dst.list[i] = dst0.list[i]

\* A port list of MaxCount entries was encoded and decoded into an object
\* that held another list.
C24_Witness ==
    /\ pc = "deserialized" /\ kind = FMOB_PSC_PORT_RSP /\ stype = kind /\ dtype = kind
    /\ obj.num = MaxCount /\ dst0 = Stale(kind) /\ fill = 165
    /\ buf[0] = MaxCount /\ srv = 4 + 16 * MaxCount /\ drv = srv
    /\ dst.list = obj.list

\* A list of virtual switch blocks of different lengths was decoded.
C24_InfoBlocks ==
    /\ pc = "deserialized" /\ kind = FMOB_VSC_INFO_RSP /\ stype = kind /\ dtype = kind
    /\ param = req /\ dst0 # NULL
    /\ dst.num = MaxCount
    /\ dst.list[1].num # dst.list[2].num
    /\ drv = srv

\* C25: after fmapi_fill_mpc_tmc(m, ppid, type, sub) returns 0 the tunnel
\* object holds the arguments ppid and type and a len of 12 plus the number
\* of bytes the inner payload encoded to; the encoded tunnel object carries
\* 13 plus that number in its length field (bytes 2 and 3), the byte of
\* the type field counted.
C25_TunnelLength ==
    /\ (Built /\ call.fn = "fmapi_fill_mpc_tmc" /\ frv = 0) =>
          /\ m.obj.ppid = IntArg(call.v, 1, 8)
          /\ m.obj.type = IntArg(call.v, 2, 8)
          /\ m.obj.len = FMLN_HDR + InnerEncoded.rv
    /\ BuiltEncoded("fmapi_fill_mpc_tmc") =>
          /\ buf[2] + 256 * buf[3] = 13 + InnerEncoded.rv
          /\ buf[0] = IntArg(call.v, 1, 8) /\ buf[4] = IntArg(call.v, 2, 8)

\* A tunnel around a bind command (6 bytes of payload) was built and
\* encoded: len is 18 and the length field holds 19.
C25_Witness ==
    /\ BuiltEncoded("fmapi_fill_mpc_tmc")
    /\ sub0.hdr.opcode = FMOP_VSC_BIND
    /\ m.obj.ppid = 66 /\ m.obj.type = 10
    /\ m.obj.len = 18
    /\ buf[2] = 19 /\ buf[3] = 0
    /\ srv = FMLN_MPC_TUNNEL_CMD_REQ + 18

\* A tunnel around a Set LD Allocations command of MaxCount blocks.
C25_ListPayload ==
    /\ BuiltEncoded("fmapi_fill_mpc_tmc")
    /\ sub0.hdr.opcode = FMOP_MCC_ALLOC_SET
    /\ m.obj.len = FMLN_HDR + 4 + 16 * MaxCount
    /\ buf[2] + 256 * buf[3] = 13 + 4 + 16 * MaxCount

\* C26: whenever fmapi_deserialize returns n > 0 every source byte it read
\* lies at an offset below n, and whenever fmapi_serialize returns n > 0
\* every destination byte it wrote lies at an offset below n (a byte that
\* no longer holds what the buffer was filled with was written).
C26_LengthBoundsAccesses ==
    /\ (pc \in {"deserialized", "decoded"} /\ drv > 0) => \A i \in rd : i < drv
    /\ (pc \in {"serialized", "deserialized"} /\ srv > 0) =>
          \A i \in DOMAIN buf : i >= srv => buf[i] = fill

\* An allocation list of MaxCount blocks was encoded into a buffer filled
\* with 0xA5 and decoded: the decode read every byte below the length it
\* returned and none beyond, and the byte behind the encoding is untouched.
C26_Witness ==
    /\ pc = "deserialized" /\ kind = FMOB_MCC_ALLOC_GET_RSP /\ stype = kind /\ dtype = kind
    /\ dst0 # NULL /\ obj.num = MaxCount /\ fill = 165
    /\ srv = 4 + 16 * MaxCount /\ drv = srv
    /\ rd = 0..(drv - 1)
    /\ buf[srv - 1] # 165 /\ buf[srv] = 165

\* A tunnel response was decoded.
C26_TunnelResponse ==
    /\ pc = "deserialized" /\ kind = FMOB_MPC_TMC_RSP /\ stype = kind /\ dtype = kind
    /\ dst0 # NULL /\ obj.len = MaxCount
    /\ drv = FMLN_MPC_TUNNEL_CMD_RESP + MaxCount
    /\ (drv - 1) \in rd

\* The payload of the message the constructor called built was encoded as
\* the request kind of the opcode in its header and decoded as that kind.
BuiltDecoded ==
    /\ pc = "deserialized" /\ call.fn # "none"
    /\ BuiltEncoded(call.fn)
    /\ dtype = kind /\ dst0 # NULL

\* The k-th int argument of the call made, where the field it is stored in
\* has a value for it, is in that field of the decoded payload.
ArgRecovered(k) ==
    LET p == ArgFields(call.fn)[k]
        x == IntArg(call.v, k, p[2])
    IN x \in 0..(Pow2(p[2]) - 1) =>
          CASE p[1] # "-" -> dst[p[1]] = x
            [] call.fn = "fmapi_fill_psc_get_port" -> dst.num = 1 /\ dst.ports[1] = x
            [] call.fn = "fmapi_fill_vsc_get_vcs" -> dst.num = 1 /\ dst.vcss[1] = x

\* The member of the obj union a constructor stores into is the member of
\* the request kind of the opcode it stores in the header; a constructor
\* that stores into none leaves an opcode whose request kind is FMOB_NULL.
MemberIsRequestKind ==
    (Built /\ frv = 0) =>
        /\ m.hdr.opcode = Command(call.fn).opcode
        /\ fmapi_fmob_req(m.hdr.opcode) = Command(call.fn).member

\* C27: every constructor stores into the member of the kind that
\* fmapi_fmob_req gives for the opcode it leaves in the header (FMOB_NULL
\* for the constructors without a payload), and hence the payload it built,
\* encoded as fmapi_fmob_req(hdr.opcode) and decoded as that kind, gives
\* the arguments of the call back.
C27_BuiltPayloadRecoversArguments ==
    /\ MemberIsRequestKind
    /\ BuiltDecoded => \A k \in 1..Len(ArgFields(call.fn)) : ArgRecovered(k)

\* What holds instead: the members and the kinds agree, and the decoded
\* payload holds every argument but a limit of 0, which comes back as the
\* 255 or 16 the constructor stored for it, and but the two flags of Set
\* QoS Control, which come back as bits 0 and 1 of the byte that holds both.
ArgumentsRecoveredButLimitZero ==
    /\ MemberIsRequestKind
    /\ BuiltDecoded =>
          \A k \in 1..Len(ArgFields(call.fn)) :
              CASE ArgFields(call.fn)[k][1] = LimitDefault(call.fn).f
                   /\ IntArg(call.v, k, 8) = 0 ->
                      dst[LimitDefault(call.fn).f] = LimitDefault(call.fn).v
                [] call.fn = "fmapi_fill_mcc_set_qos_ctrl" /\ k <= 2 ->
                      /\ dst.epc_en = IntArg(call.v, 1, 8) % 2
                      /\ dst.ttr_en = Or(IntArg(call.v, 2, 8) % 2,
                                         Shr(IntArg(call.v, 1, 8) % 256, 1) % 2)
                [] OTHER -> ArgRecovered(k)

\* Get QoS Allocated BW was built with a limit of 0, encoded and decoded.
C27_Witness ==
    /\ BuiltDecoded /\ call.fn = "fmapi_fill_mcc_get_qos_alloc"
    /\ kind = FMOB_MCC_QOS_BW_GET_REQ
    /\ IntArg(call.v, 2, 8) = 0
    /\ srv = 2 /\ drv = 2 /\ dst.num = 255

\* The tunnel command was built, encoded as a tunnel request and decoded.
C27_Tunnel ==
    /\ BuiltDecoded /\ call.fn = "fmapi_fill_mpc_tmc"
    /\ kind = FMOB_MPC_TMC_REQ
    /\ dst.ppid = 66 /\ dst.type = 10

\* C28: when a constructor returns non-zero nothing its arguments reach was
\* modified: the message m and, for fmapi_fill_mpc_tmc called with a null m
\* and a valid sub, the inner message sub (its buf pointer, its header and
\* its payload) are as they were before the call.
C28_FailedFillModifiesNothing ==
    (Built /\ frv # 0) => m = m0 /\ sub = sub0

\* What holds instead: a failed constructor leaves m, and the header and the
\* payload of sub, as they were.
FailedFillKeepsAllButSubBuf ==
    (Built /\ frv # 0) =>
        /\ m = m0
        /\ sub0 # NULL => sub.hdr = sub0.hdr /\ sub.obj = sub0.obj

\* The tunnel constructor returned 1 for a null m and a valid inner message
\* and the buf pointer of the inner message is not what it was.
C28_Witness ==
    /\ pc = "filled" /\ call.fn = "fmapi_fill_mpc_tmc"
    /\ m0 = NULL /\ sub0 # NULL /\ frv = 1
    /\ sub0.buf = "none" /\ sub.buf = "null->obj.mpc_tmc_req.msg"

\* Another constructor returned 1 for a null m.
C28_OtherConstructor ==
    /\ pc = "filled" /\ call.fn = "fmapi_fill_mcc_set_alloc"
    /\ m0 = NULL /\ frv = 1 /\ m = NULL

\* The decode of the bytes of a virtual switch block with its request as
\* context, whatever the block's total (wire byte 3).
InfoBlkDecodeAny ==
    /\ pc = "deserialized"
    /\ stype = FMOB_VSC_INFO_BLK /\ dtype = FMOB_VSC_INFO_BLK
    /\ dst0 # NULL /\ param # NULL

\* C29: for every request and every total byte on the wire, a total below
\* vppbid_start included, the entry count the decode of an FMOB_VSC_INFO_BLK
\* computes exceeds neither the block's total nor the request's
\* vppbid_limit; when the total is at most vppbid_start the decoded list is
\* empty and 4 bytes are consumed.
C29_InfoBlkCountBounded ==
    InfoBlkDecodeAny =>
        /\ dst.num <= dst.total
        /\ dst.num <= param.vppbid_limit
        /\ buf[3] <= param.vppbid_start => dst.num = 0 /\ drv = FMLN_VSC_INFO

\* What holds instead: the count never exceeds vppbid_limit; it is within
\* the total, and the list is empty for a total equal to vppbid_start, but
\* for a total below vppbid_start the count is the lesser of vppbid_limit
\* and 256 + total - vppbid_start.
InfoBlkCountWrapsBelowStart ==
    InfoBlkDecodeAny =>
        /\ dst.num <= param.vppbid_limit
        /\ drv = FMLN_VSC_INFO + FMLN_VSC_PPB_STATUS * dst.num
        /\ buf[3] >= param.vppbid_start =>
              dst.num = Min(param.vppbid_limit, buf[3] - param.vppbid_start)
        /\ buf[3] < param.vppbid_start =>
              dst.num = Min(param.vppbid_limit, 256 + buf[3] - param.vppbid_start)

\* A block with a total of 2 was decoded for a request of 3 entries from
\* vPPB 5 on, and 3 entries were decoded from the bytes behind the block.
C29_Witness ==
    /\ InfoBlkDecodeAny
    /\ buf[3] = 2 /\ param.vppbid_start = 5 /\ param.vppbid_limit = 3
    /\ srv = FMLN_VSC_INFO
    /\ dst.total = 2 /\ dst.num = 3 /\ drv = 16

\* A block whose total equals vppbid_start was decoded.
C29_TotalAtStart ==
    /\ InfoBlkDecodeAny
    /\ buf[3] = 5 /\ param.vppbid_start = 5 /\ param.vppbid_limit = 3
    /\ dst.num = 0 /\ drv = FMLN_VSC_INFO

\* C30: fmapi_fill_psc_get_all_ports builds a Get Physical Port State
\* request with num = 255 whose list is the port ids 0, 1, ..., 254 in
\* ascending order, each once; port id 255 is not in the list, and the
\* request encodes to 256 bytes: the count and the 255 ids.
C30_AllPorts ==
    (Built /\ call.fn = "fmapi_fill_psc_get_all_ports" /\ frv = 0) =>
        /\ m.hdr.opcode = FMOP_PSC_PORT
        /\ m.obj.num = 255
        /\ Len(m.obj.ports) >= 255
        /\ \A i \in 1..255 : m.obj.ports[i] = i - 1
        /\ \A i \in 256..Len(m.obj.ports) :
              i <= Len(m0.obj.ports) /\ m.obj.ports[i] = m0.obj.ports[i]
        /\ BuiltEncoded(call.fn) =>
              /\ kind = FMOB_PSC_PORT_REQ
              /\ srv = 256
              /\ buf[0] = 255
              /\ \A i \in 1..255 : buf[i] = i - 1
              /\ \A i \in 256..(BufLen - 1) : buf[i] = fill
              /\ (pc = "deserialized" /\ dtype = kind /\ dst0 # NULL) =>
                    /\ drv = 256 /\ dst.num = 255
                    /\ \A i \in 1..255 : dst.ports[i] = i - 1

\* The request for all ports was built on a used message, encoded into a
\* used buffer and decoded.
C30_Witness ==
    /\ pc = "deserialized" /\ call.fn = "fmapi_fill_psc_get_all_ports"
    /\ BuiltEncoded(call.fn)
    /\ m0.hdr = Obj(FMOB_HDR, 1, 0) /\ fill = 165
    /\ dtype = FMOB_PSC_PORT_REQ /\ dst0 = Stale(FMOB_PSC_PORT_REQ)
    /\ srv = 256 /\ drv = 256
    /\ buf[1] = 0 /\ buf[255] = 254 /\ buf[256] = 165
    /\ dst.num = 255 /\ dst.ports[255] = 254

====
